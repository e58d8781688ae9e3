------------------------- MODULE OrganizationsProofs -------------------------
(***************************************************************************)
(* The safety properties of module OrganizationsProperties, proved for any *)
(* number of requests, users, organizations and slugs and for any faults.  *)
(***************************************************************************)
EXTENDS OrganizationsInvariants, TLAPS

-----------------------------------------------------------------------------
(* The shape of a request's steps, those of its handler and the arrival of  *)
(* a write of it that is late: what they do to the request, and what they   *)
(* do to the stores.  Most of what a step preserves follows from these two  *)
(* alone.                                                                   *)

Takes(r) == Handler(r) \/ Arrives(r)

Ends(r) == Returns(r) \/ Fails(r) \/ IsRefused(r) \/ IsLost(r)

Advances(r) ==
  /\ pc[r] \in Step
  /\ (\E s \in Step : Goto(r, s)) \/ (\E c \in Code : Reply(r, c))
  /\ Ends(r)

Arrived(r) ==
  /\ late[r] # "none"
  /\ late' = [late EXCEPT ![r] = "none"]
  /\ UNCHANGED <<call, pc, created, code, errs, dirty, cancelled, overlap>>

InsertsOrg(r) ==
  /\ At(r, "insertOrg")
  /\ \E id \in OrgId :
       /\ Inserts(r, id)
       /\ \/ pc[r] = "insertOrg" /\ created' = [created EXCEPT ![r] = id]
          \/ UNCHANGED created

AddsOwner(r) == At(r, "insertOwner") /\ InsertsOwner(r)

EnsuresNs(r) == At(r, "ensureNs") /\ EnsureOrgNamespace(NsOf(r))

DeletesRow(r) ==
  (At(r, "compensate") \/ At(r, "deleteRow")) /\ DeleteOrganizationRow(OrgOf(r))

DeletesNs(r) == At(r, "deleteNs") /\ DeleteOrgNamespace(NsOf(r))

SetsRow(r) ==
  /\ At(r, "updateRow")
  /\ \/ /\ HasRow(OrgOf(r))
        /\ ~ SlugTaken(UpdatedRow(organizations[OrgOf(r)], call[r]).slug, OrgOf(r))
        /\ UpdateOrganizationRow(OrgOf(r),
                                 UpdatedRow(organizations[OrgOf(r)], call[r]))
     \/ /\ ~ HasRow(OrgOf(r))
        /\ UpdateOrganizationRow(OrgOf(r), NoRow)

CreatesCR(r) == At(r, "createResource") /\ CreateResource(NsOf(r), call[r].res)

Writes(r) ==
  \/ UNCHANGED <<stores, created>>
  \/ InsertsOrg(r)
  \/ /\ UNCHANGED created
     /\ \/ AddsOwner(r) \/ EnsuresNs(r) \/ DeletesRow(r)
        \/ DeletesNs(r) \/ SetsRow(r) \/ CreatesCR(r)

LEMMA HandlerShape ==
  ASSUME NEW r \in Request, Handler(r)
  PROVE  Advances(r) /\ Writes(r)
<1> USE DEF Advances, Writes, Ends, Breaks, At
<1>1. CASE InsertOrg(r)
  BY <1>1 DEF InsertOrg, InsertsOrg, Step, Code
<1>2. CASE InsertOwner(r)
  BY <1>2 DEF InsertOwner, AddsOwner, Step, Code
<1>3. CASE EnsureNs(r)
  BY <1>3 DEF EnsureNs, EnsuresNs, Ensures, Step, Code
<1>4. CASE Compensate(r)
  BY <1>4 DEF Compensate, DeletesRow, Step, Code
<1>5. CASE Answer(r)
  BY <1>5 DEF Answer, Step, Code
<1>6. CASE ReadBack(r)
  BY <1>6 DEF ReadBack, LooksUp, LookFails, Step, Code
<1>7. CASE CheckAdmin(r)
  BY <1>7 DEF CheckAdmin, LooksUp, LookFails, Step, Code
<1>8. CASE UpdateRow(r)
  BY <1>8 DEF UpdateRow, UpdatesRow, NewRow, Conflict, SetsRow, Step, Code
<1>9. CASE CheckOwner(r)
  BY <1>9 DEF CheckOwner, LooksUp, LookFails, Step, Code
<1>10. CASE DeleteNs(r)
  BY <1>10 DEF DeleteNs, DeletesNs, Step, Code
<1>11. CASE DeleteRow(r)
  BY <1>11 DEF DeleteRow, DeletesRow, Step, Code
<1>12. CASE CheckMember(r)
  BY <1>12 DEF CheckMember, LooksUp, LookFails, Step, Code
<1>13. CASE CreateCR(r)
  BY <1>13 DEF CreateCR, MakesResource, CreatesCR, Step, Code
<1> QED
  BY <1>1, <1>2, <1>3, <1>4, <1>5, <1>6, <1>7, <1>8, <1>9, <1>10, <1>11, <1>12,
     <1>13 DEF Handler

LEMMA ArrivalShape ==
  ASSUME NEW r \in Request, Arrives(r)
  PROVE  Arrived(r) /\ Writes(r)
<1>1. Write(r, late[r]) /\ UNCHANGED created
  BY DEF Arrives
<1>2. Arrived(r)
  BY <1>1 DEF Write, Arrived, Arrives
<1>3. Writes(r)
  <2>1. CASE late[r] = "insertOrg"
    BY <1>1, <2>1 DEF Write, Writes, InsertsOrg, At
  <2>2. CASE late[r] = "updateRow"
    BY <1>1, <2>2 DEF Write, Writes, SetsRow, UpdatesRow, NewRow, Conflict, At
  <2>3. CASE late[r] \notin {"insertOrg", "updateRow"}
    BY <1>1, <2>3
    DEF Write, Writes, AddsOwner, EnsuresNs, Ensures, DeletesRow, DeletesNs, MakesResource,
        CreatesCR, At
  <2> QED
    BY <2>1, <2>2, <2>3
<1> QED
  BY <1>2, <1>3

LEMMA TakesShape ==
  ASSUME NEW r \in Request, Takes(r)
  PROVE  (Advances(r) \/ Arrived(r)) /\ Writes(r)
BY HandlerShape, ArrivalShape DEF Takes

-----------------------------------------------------------------------------
(* Type correctness *)

\* The fields of a request.
LEMMA CallFields ==
  ASSUME call \in [Request -> Call], NEW r \in Request
  PROVE  /\ call[r].op \in Op
         /\ call[r].user \in User \cup {Anonymous}
         /\ call[r].id \in Spelling \cup {NoId}
         /\ call[r].name \in RawName
         /\ call[r].slug \in RawSlug
         /\ call[r].res \in Resource
BY OrganizationsAssumption DEF CallType

LEMMA TypeInit == Init => TypeOK
BY DEF Init, TypeOK, StoresInit, StoresTypeOK, Role, Phase, Row, Code, Progress, Step

\* A handler's step keeps the type of its own progress, and so does an arrival.
LEMMA AdvanceType ==
  ASSUME TypeOK, ControlInv, NEW r \in Request, Takes(r)
  PROVE  /\ (call \in [Request -> Call])'
         /\ (pc \in [Request -> Progress])'
         /\ (code \in [Request -> Code])'
         /\ (errs \in [Request -> Nat])'
         /\ (dirty \subseteq Request)'
         /\ (late \in [Request -> WriteStep \cup {"none"}])'
         /\ (cancelled \subseteq Request)'
         /\ (overlap \subseteq Request \X Request)'
<1>1. CASE Handler(r)
  <2>1. Ends(r) /\ ((\E s \in Step : Goto(r, s)) \/ (\E c \in Code : Reply(r, c)))
    BY <1>1, HandlerShape DEF Advances
  <2>2. (errs \in [Request -> Nat])' /\ (dirty \subseteq Request)'
    BY <2>1 DEF TypeOK, Ends, Returns, Fails, IsLost, IsRefused
  <2>3. /\ (call \in [Request -> Call])' /\ (cancelled \subseteq Request)'
        /\ (overlap \subseteq Request \X Request)'
    BY <2>1 DEF TypeOK, Goto, Reply
  <2>4. (pc \in [Request -> Progress])' /\ (code \in [Request -> Code])'
    BY <2>1 DEF TypeOK, Goto, Reply, Progress
  <2>5. late' = late \/ (pc[r] \in WriteStep /\ late' = [late EXCEPT ![r] = pc[r]])
    BY <1>1
    DEF Handler, InsertOrg, InsertOwner, EnsureNs, Compensate, Answer, ReadBack, CheckAdmin,
        UpdateRow, CheckOwner, DeleteNs, DeleteRow, CheckMember, CreateCR, LooksUp, LookFails,
        Breaks, Returns, Fails, IsLost, IsRefused, WriteStep
  <2>6. (late \in [Request -> WriteStep \cup {"none"}])'
    BY <2>5 DEF TypeOK
  <2> QED
    BY <2>2, <2>3, <2>4, <2>6
<1>2. CASE Arrives(r)
  BY <1>2, ArrivalShape DEF Arrived, TypeOK
<1> QED
  BY <1>1, <1>2 DEF Takes

\* What a request names: an organization, or nothing.
LEMMA OrgType ==
  ASSUME TypeOK, NEW r \in Request
  PROVE  /\ OrgOf(r) \in OrgId \cup {NoId}
         /\ OrgOf(r) # NoId => NsOf(r) \in Spelling /\ Uuid[NsOf(r)] = OrgOf(r)
<1>1. created[r] \in OrgId \cup {NoId} /\ call[r].id \in Spelling \cup {NoId}
  BY CallFields DEF TypeOK
<1> QED
  BY <1>1, SpellingAssumption DEF OrgOf, NsOf

\* Beyond its first step it names an organization.
LEMMA TargetType ==
  ASSUME TypeOK, ControlInv, NEW r \in Request, NEW s \in Step, At(r, s), s \notin Opening
  PROVE  /\ OrgOf(r) \in OrgId /\ NsOf(r) \in Spelling /\ Uuid[NsOf(r)] = OrgOf(r)
         /\ call[r].user \in User
<1>1. OrgOf(r) # NoId /\ call[r].user \in User
  BY DEF ControlInv, Established
<1> QED
  BY <1>1, OrgType

LEMMA UpdatedRowType ==
  ASSUME TypeOK, ControlInv, NEW r \in Request, At(r, "updateRow"), HasRow(OrgOf(r))
  PROVE  UpdatedRow(organizations[OrgOf(r)], call[r]) \in Row
<1>1. organizations[OrgOf(r)] \in Row
  BY TargetType DEF TypeOK, StoresTypeOK, HasRow, Step, Opening
<1>2. call[r].name \in RawName /\ call[r].slug \in RawSlug
  BY CallFields DEF TypeOK
<1>3. call[r].slug = "" \/ Slugify[call[r].slug] \in Slug
  BY <1>2, OrganizationsAssumption DEF ControlInv, Established
<1>4. Trim[call[r].name] \in Name
  BY <1>2, OrganizationsAssumption
<1> QED
  BY <1>1, <1>3, <1>4 DEF UpdatedRow, Row

\* The writes that need an organization have one.
LEMMA WritesWhere ==
  ASSUME TypeOK, ControlInv, NEW r \in Request,
         \/ AddsOwner(r) \/ EnsuresNs(r) \/ DeletesRow(r)
         \/ DeletesNs(r) \/ SetsRow(r) \/ CreatesCR(r)
  PROVE  /\ OrgOf(r) \in OrgId /\ NsOf(r) \in Spelling /\ Uuid[NsOf(r)] = OrgOf(r)
         /\ call[r].user \in User
<1>1. PICK s \in Step : At(r, s) /\ s \notin Opening
  BY DEF AddsOwner, EnsuresNs, DeletesRow, DeletesNs, SetsRow, CreatesCR, Step, Opening
<1> QED
  BY <1>1, TargetType

LEMMA WriteType ==
  ASSUME TypeOK, ControlInv, NEW r \in Request, Writes(r)
  PROVE  StoresTypeOK' /\ (created \in [Request -> OrgId \cup {NoId}])'
<1> DEFINE id == OrgOf(r)
           n  == NsOf(r)
<1>0. StoresTypeOK /\ created \in [Request -> OrgId \cup {NoId}]
  BY DEF TypeOK
<1>1. /\ call[r].name \in RawName /\ call[r].slug \in RawSlug
      /\ call[r].res \in Resource
  BY CallFields DEF TypeOK
<1>2. Trim[call[r].name] \in Name /\ Slugify[call[r].slug] \in Slug \cup {BadSlug}
  BY <1>1, OrganizationsAssumption
<1>3. CASE UNCHANGED <<stores, created>>
  BY <1>0, <1>3 DEF StoresTypeOK, stores
<1>4. CASE InsertsOrg(r)
  <2>1. Slugify[call[r].slug] \in Slug
    BY <1>2, <1>4 DEF InsertsOrg, ControlInv, Established
  <2> QED
    BY <1>0, <1>2, <1>4, <2>1 DEF InsertsOrg, Inserts, InsertOrganizationRow, StoresTypeOK, Row
<1>6. CASE UNCHANGED created /\ AddsOwner(r)
  BY <1>0, <1>6, WritesWhere DEF AddsOwner, InsertsOwner, InsertMemberRow, StoresTypeOK, Role
<1>7. CASE UNCHANGED created /\ EnsuresNs(r)
  BY <1>0, <1>7, WritesWhere DEF EnsuresNs, EnsureOrgNamespace, StoresTypeOK, Phase
<1>8. CASE UNCHANGED created /\ DeletesRow(r)
  BY <1>0, <1>8, WritesWhere DEF DeletesRow, DeleteOrganizationRow, StoresTypeOK, Role
<1>9. CASE UNCHANGED created /\ DeletesNs(r)
  BY <1>0, <1>9, WritesWhere DEF DeletesNs, DeleteOrgNamespace, StoresTypeOK, Phase
<1>10. CASE UNCHANGED created /\ SetsRow(r)
  <2>1. id \in OrgId
    BY <1>10, WritesWhere
  <2>3. HasRow(id) => UpdatedRow(organizations[id], call[r]) \in Row
    BY <1>10, UpdatedRowType DEF SetsRow
  <2>4. /\ UNCHANGED <<users, members, issued, namespaces, resources>>
        /\ \E row \in Row \cup {NoRow} : organizations' = [organizations EXCEPT ![id] = row]
    BY <1>10, <2>3 DEF SetsRow, UpdateOrganizationRow
  <2> QED
    BY <1>0, <1>10, <2>1, <2>4 DEF StoresTypeOK
<1>11. CASE UNCHANGED created /\ CreatesCR(r)
  BY <1>0, <1>1, <1>11, WritesWhere DEF CreatesCR, CreateResource, StoresTypeOK
<1> QED
  BY <1>3, <1>4, <1>6, <1>7, <1>8, <1>9, <1>10, <1>11 DEF Writes

LEMMA TypeStep == TypeOK /\ ControlInv /\ [Next]_vars => TypeOK'
<1> SUFFICES ASSUME TypeOK, ControlInv, [Next]_vars PROVE TypeOK'
  OBVIOUS
<1>1. ASSUME NEW r \in Request, Takes(r) PROVE TypeOK'
  BY <1>1, TakesShape, AdvanceType, WriteType DEF TypeOK
<1>2. ASSUME NEW r \in Request, Begin(r) PROVE TypeOK'
  <2>1. call[r].op \in Op
    BY CallFields DEF TypeOK
  <2>2. FirstStep[call[r].op] \in Progress /\ Rejection(call[r]) \in Code
    BY <2>1 DEF FirstStep, Op, Progress, Step, Rejection, Code
  <2>3. /\ pc' \in [Request -> Progress] /\ code' \in [Request -> Code]
        /\ overlap' \subseteq Request \X Request
    BY <1>2, <2>2 DEF Begin, TypeOK, InFlight, Progress
  <2>4. UNCHANGED <<stores, call, created, errs, dirty, late, cancelled>>
    BY <1>2 DEF Begin
  <2> QED
    BY <2>3, <2>4 DEF TypeOK, StoresTypeOK, stores
<1>3. ASSUME NEW r \in Request, Cancel(r) \/ Crash(r) PROVE TypeOK'
  BY <1>3 DEF Cancel, Crash, TypeOK, StoresTypeOK, stores, Progress
<1>4. ASSUME NEW n \in Spelling, NamespaceController(n) PROVE TypeOK'
  BY <1>4 DEF NamespaceController, NamespaceFinalized, TypeOK, StoresTypeOK, Phase
<1>5. ASSUME NEW id \in OrgId, Operators(id) PROVE TypeOK'
  <2>1. PICK u \in User, role \in Role \cup {"none"} : InsertMemberRow(id, u, role)
    <3>1. \A seat \in Seat : seat.user \in User /\ seat.role \in Role
      BY OrganizationsAssumption DEF Role
    <3> QED
      BY <1>5, <3>1 DEF Operators
  <2>2. /\ members' \in [OrgId -> [User -> Role \cup {"none"}]]
        /\ UNCHANGED <<users, organizations, issued, namespaces, resources>>
    BY <2>1 DEF InsertMemberRow, TypeOK, StoresTypeOK
  <2>3. UNCHANGED <<call, pc, created, code, errs, dirty, late, cancelled, overlap>>
    BY <1>5 DEF Operators
  <2> QED
    BY <2>2, <2>3 DEF TypeOK, StoresTypeOK
<1>6. ASSUME NEW u \in User, AccountRemoved(u) PROVE TypeOK'
  <2>1. /\ users' = users \ {u}
        /\ members' = [id \in OrgId |-> [members[id] EXCEPT ![u] = "none"]]
        /\ UNCHANGED <<organizations, issued, namespaces, resources,
                       call, pc, created, code, errs, dirty, late, cancelled, overlap>>
    BY <1>6 DEF AccountRemoved, DeleteUserRow
  <2>2. members' \in [OrgId -> [User -> Role \cup {"none"}]] /\ users' \subseteq User
    BY <2>1 DEF TypeOK, StoresTypeOK
  <2> QED
    BY <2>1, <2>2 DEF TypeOK, StoresTypeOK
<1>7. CASE UNCHANGED vars
  BY <1>7 DEF vars, stores, TypeOK, StoresTypeOK
<1> QED
  BY <1>1, <1>2, <1>3, <1>4, <1>5, <1>6, <1>7 DEF Next, Takes

-----------------------------------------------------------------------------
(* What a handler has established at each step *)

\* Where a request stands and what it answered changes only for the request
\* that takes the step.
LEMMA OthersStay ==
  ASSUME TypeOK, NEW r \in Request, Takes(r), NEW s \in Request, s # r
  PROVE  /\ pc'[s] = pc[s] /\ code'[s] = code[s] /\ call'[s] = call[s]
         /\ errs'[s] = errs[s] /\ late'[s] = late[s] /\ (s \in dirty' <=> s \in dirty)
<1>1. CASE Advances(r)
  <2>1. Ends(r) /\ ((\E t \in Step : Goto(r, t)) \/ (\E c \in Code : Reply(r, c)))
    BY <1>1 DEF Advances
  <2>2. pc'[s] = pc[s] /\ code'[s] = code[s] /\ call'[s] = call[s]
    BY <2>1 DEF Goto, Reply, TypeOK
  <2>3. errs'[s] = errs[s] /\ late'[s] = late[s] /\ (s \in dirty' <=> s \in dirty)
    BY <2>1 DEF Ends, Returns, Fails, IsLost, IsRefused, TypeOK
  <2> QED
    BY <2>2, <2>3
<1>2. CASE Arrived(r)
  BY <1>2 DEF Arrived, TypeOK
<1> QED
  BY <1>1, <1>2, TakesShape

\* created is written by InsertOrg only, for its own request.
LEMMA CreatedStays ==
  ASSUME TypeOK, NEW r \in Request, Writes(r), NEW s \in Request,
         s # r \/ pc[r] # "insertOrg"
  PROVE  created'[s] = created[s]
BY DEF Writes, InsertsOrg, TypeOK

LEMMA ControlInit == Init => ControlInv
BY DEF Init, ControlInv, Established, At, Step

\* The handler of r moves on within its operation, to a step it has prepared; if
\* the answer of a call is lost, to one it takes after errors.
Moves(r) ==
  /\ pc'[r] \in Step =>
       /\ pc'[r] \in StepsOf(call[r].op) /\ pc'[r] # "insertOrg"
       /\ pc'[r] \notin Opening => OrgOf(r)' # NoId
       /\ pc'[r] = "updateRow" => call[r].slug = "" \/ Slugify[call[r].slug] # BadSlug
  /\ code'[r] # "none" => pc'[r] = "done"
  /\ code'[r] = "OK" /\ call[r].op = "create" => created'[r] # NoId
  /\ created'[r] # NoId => call[r].op = "create" /\ pc'[r] \notin {"idle", "insertOrg"}
  /\ \/ UNCHANGED late
     \/ late'[r] = pc[r] /\ r \in dirty' /\ pc'[r] \in {"compensate", "done"}
        /\ code'[r] # "OK" /\ created'[r] = created[r]
  /\ pc[r] = "compensate" => pc'[r] = "done" /\ code'[r] # "OK"

LEMMA HandlerMoves ==
  ASSUME TypeOK, ControlInv, NEW r \in Request, Handler(r)
  PROVE  Moves(r)
<1>1. /\ pc[r] \in Step /\ call' = call /\ Writes(r)
      /\ (\E s \in Step : Goto(r, s)) \/ (\E c \in Code : Reply(r, c))
  BY HandlerShape DEF Advances, Goto, Reply
<1>2. /\ call[r].op \in Op /\ code[r] = "none"
      /\ pc[r] \in StepsOf(call[r].op) /\ (pc[r] \notin Opening => OrgOf(r) # NoId)
      /\ created[r] # NoId => call[r].op = "create" /\ pc[r] # "insertOrg"
  BY <1>1, CallFields DEF TypeOK, ControlInv, Established, Step, At
<1>3. pc[r] # "insertOrg" => created'[r] = created[r] /\ OrgOf(r)' = OrgOf(r)
  BY <1>1, CreatedStays DEF OrgOf
<1>4. OrgOf(r) # NoId /\ call[r].op = "create" => created[r] # NoId
  BY DEF OrgOf
<1>5. pc \in [Request -> Progress] /\ code \in [Request -> Code]
      /\ late \in [Request -> WriteStep \cup {"none"}] /\ created \in [Request -> OrgId \cup {NoId}]
  BY DEF TypeOK
<1> USE <1>1, <1>2, <1>3, <1>4, <1>5
    DEF Moves, Goto, Reply, Returns, Fails, IsRefused, IsLost, Breaks, LooksUp, LookFails,
        StepsOf, Op, Step, Opening
<1>6. CASE InsertOrg(r)
  <2>1. ASSUME NEW id \in OrgId, created' = [created EXCEPT ![r] = id]
        PROVE  created'[r] # NoId /\ OrgOf(r)' = IF call[r].op = "create" THEN id ELSE OrgOf(r)
    BY <2>1, SpellingAssumption DEF OrgOf
  <2> QED
    BY <1>6, <2>1 DEF InsertOrg, OrgOf
<1>7. CASE InsertOwner(r)
  BY <1>7 DEF InsertOwner
<1>8. CASE EnsureNs(r)
  BY <1>8 DEF EnsureNs
<1>9. CASE Compensate(r)
  BY <1>9 DEF Compensate
<1>10. CASE Answer(r)
  BY <1>10 DEF Answer
<1>11. CASE ReadBack(r)
  BY <1>11 DEF ReadBack
<1>12. CASE CheckAdmin(r)
  BY <1>12 DEF CheckAdmin
<1>13. CASE UpdateRow(r)
  BY <1>13 DEF UpdateRow
<1>14. CASE CheckOwner(r)
  BY <1>14 DEF CheckOwner
<1>15. CASE DeleteNs(r)
  BY <1>15 DEF DeleteNs
<1>16. CASE DeleteRow(r)
  BY <1>16 DEF DeleteRow
<1>17. CASE CheckMember(r)
  BY <1>17 DEF CheckMember
<1>18. CASE CreateCR(r)
  BY <1>18 DEF CreateCR
<1> QED
  BY <1>6, <1>7, <1>8, <1>9, <1>10, <1>11, <1>12, <1>13, <1>14, <1>15, <1>16, <1>17,
     <1>18 DEF Handler

LEMMA ControlHandler ==
  ASSUME TypeOK, ControlInv, NEW r \in Request, Handler(r)
  PROVE  Established(r)'
<1>1. /\ pc[r] \in Step /\ call' = call /\ dirty \subseteq dirty'
      /\ Writes(r) /\ Moves(r)
  BY HandlerShape, HandlerMoves
  DEF Advances, Goto, Reply, Ends, Returns, Fails, IsRefused, IsLost
<1>2. Established(r)
  BY DEF ControlInv
<1>3. pc[r] # "insertOrg" => created'[r] = created[r] /\ OrgOf(r)' = OrgOf(r)
  BY <1>1, CreatedStays DEF OrgOf
<1>4. call[r].user \in User /\ pc[r] \in StepsOf(call[r].op)
  BY <1>1, <1>2 DEF Established, At
<1>5. CASE UNCHANGED late
  <2>1. late[r] # "none" => pc[r] = "compensate" /\ r \in dirty
    BY <1>1, <1>2 DEF Established, Step
  <2>2. \A s \in Step : At(r, s)' =>
           /\ s \in StepsOf(call'[r].op) /\ call'[r].user \in User
           /\ s \notin Opening => OrgOf(r)' # NoId
    BY <1>1, <1>2, <1>3, <1>4, <1>5, <2>1 DEF Established, Moves, At, Step
  <2>3. /\ At(r, "insertOrg")' => Slugify[call'[r].slug] # BadSlug
        /\ At(r, "updateRow")' => call'[r].slug = "" \/ Slugify[call'[r].slug] # BadSlug
    BY <1>1, <1>2, <1>5, <2>1 DEF Established, Moves, At, Step
  <2>4. late'[r] # "none" =>
           r \in dirty' /\ pc'[r] \in {"compensate", "done", "dead"} /\ code'[r] # "OK"
    BY <1>1, <1>5, <2>1 DEF Moves
  <2> QED
    BY <1>1, <1>4, <2>2, <2>3, <2>4 DEF Established, Moves
<1>6. CASE late'[r] = pc[r] /\ r \in dirty' /\ pc'[r] \in {"compensate", "done"}
           /\ code'[r] # "OK" /\ created'[r] = created[r]
  <2>1. OrgOf(r)' = OrgOf(r)
    BY <1>1, <1>6 DEF OrgOf
  <2>2. \A s \in Step : At(r, s)' =>
           /\ s \in StepsOf(call'[r].op) /\ call'[r].user \in User
           /\ s \notin Opening => OrgOf(r)' # NoId
    BY <1>1, <1>2, <1>4, <1>6, <2>1 DEF Established, Moves, At
  <2>3. /\ At(r, "insertOrg")' => Slugify[call'[r].slug] # BadSlug
        /\ At(r, "updateRow")' => call'[r].slug = "" \/ Slugify[call'[r].slug] # BadSlug
    BY <1>1, <1>2, <1>6 DEF Established, Moves, At, Step
  <2> QED
    BY <1>1, <1>4, <1>6, <2>2, <2>3 DEF Established, Moves
<1> QED
  BY <1>1, <1>5, <1>6 DEF Moves

\* What is established of a request depends on nothing but its own variables.
LEMMA EstablishedStays ==
  ASSUME NEW s \in Request, Established(s),
         pc'[s] = pc[s], code'[s] = code[s], call'[s] = call[s],
         late'[s] \in {late[s], "none"},
         created'[s] = created[s], s \in dirty => s \in dirty'
  PROVE  Established(s)'
<1>1. /\ OrgOf(s)' = OrgOf(s)
      /\ \A t \in Step : At(s, t)' => At(s, t)
  BY DEF OrgOf, At, Step
<1> QED
  BY <1>1 DEF Established, Step

LEMMA ControlStep == TypeOK /\ ControlInv /\ [Next]_vars => ControlInv'
<1> SUFFICES ASSUME TypeOK, ControlInv, [Next]_vars, NEW s \in Request
             PROVE  Established(s)'
  BY DEF ControlInv
<1>0. Established(s)
  BY DEF ControlInv
<1>1. ASSUME NEW r \in Request, Handler(r) PROVE Established(s)'
  <2>1. CASE s # r
    BY <1>0, <1>1, <2>1, HandlerShape, OthersStay, CreatedStays, EstablishedStays DEF Takes
  <2> QED
    BY <1>1, <2>1, ControlHandler
<1>2. ASSUME NEW r \in Request, Arrives(r) PROVE Established(s)'
  <2>1. /\ UNCHANGED <<call, pc, created, code, dirty>> /\ late'[s] \in {late[s], "none"}
    BY <1>2, ArrivalShape DEF Arrived, TypeOK
  <2> QED
    BY <1>0, <2>1, EstablishedStays
<1>3. ASSUME NEW r \in Request, Begin(r) PROVE Established(s)'
  <2>1. /\ call[r].op \in Op /\ call[r].user \in User \cup {Anonymous}
        /\ created[r] = NoId /\ code[r] = "none" /\ late[r] = "none"
    BY <1>3, CallFields DEF TypeOK, Begin, ControlInv, Established
  <2>2. UNCHANGED <<call, created, late, dirty>>
    BY <1>3 DEF Begin
  <2>3. CASE s # r
    <3>1. pc'[s] = pc[s] /\ code'[s] = code[s]
      BY <1>3, <2>3 DEF Begin, TypeOK
    <3> QED
      BY <1>0, <2>2, <3>1, EstablishedStays
  <2>4. CASE Rejection(call[r]) = "none" /\ s = r
    <3>1. /\ call[r].user \in User
          /\ call[r].op = "create" => Slugify[call[r].slug] # BadSlug
      BY <2>1, <2>4 DEF Rejection
    <3>2. pc'[r] = FirstStep[call[r].op] /\ code' = code
      BY <1>3, <2>4 DEF Begin, TypeOK
    <3>3. /\ FirstStep[call[r].op] \in StepsOf(call[r].op) \cap Opening
          /\ FirstStep[call[r].op] = "insertOrg" <=> call[r].op = "create"
      BY <2>1 DEF FirstStep, StepsOf, Op, Opening
    <3>4. FirstStep[call[r].op] \notin {"updateRow", "idle"}
      BY <2>1 DEF FirstStep, Op
    <3>5. \A t \in Step : At(r, t)' => t = FirstStep[call[r].op]
      BY <2>1, <2>2, <3>2 DEF At, Step
    <3>6. (At(r, "insertOrg")' => call[r].op = "create") /\ ~ At(r, "updateRow")'
      BY <2>1, <2>2, <3>2, <3>3, <3>4 DEF At
    <3> QED
      BY <2>1, <2>2, <2>4, <3>1, <3>2, <3>3, <3>5, <3>6 DEF Established
  <2>5. CASE Rejection(call[r]) # "none" /\ s = r
    <3>1. Rejection(call[r]) # "OK"
      BY DEF Rejection
    <3>2. pc'[r] = "done" /\ code'[r] = Rejection(call[r])
      BY <1>3, <2>5 DEF Begin, TypeOK
    <3>3. \A t \in Step : ~ At(r, t)'
      BY <2>1, <2>2, <3>2 DEF At, Step
    <3> QED
      BY <2>1, <2>2, <2>5, <3>1, <3>2, <3>3 DEF Established, Step
  <2> QED
    BY <2>3, <2>4, <2>5
<1>4. ASSUME NEW r \in Request, Cancel(r) PROVE Established(s)'
  BY <1>0, <1>4, EstablishedStays DEF Cancel
<1>5. ASSUME NEW r \in Request, Crash(r) PROVE Established(s)'
  <2>1. UNCHANGED <<call, created, code, dirty, late>> /\ pc[r] \in Step
        /\ pc' = [pc EXCEPT ![r] = "dead"]
    BY <1>5 DEF Crash
  <2>2. CASE s # r
    BY <1>0, <2>1, <2>2, EstablishedStays DEF TypeOK
  <2>3. CASE s = r
    <3>1. pc'[s] = "dead" /\ code[s] = "none" /\ OrgOf(s)' = OrgOf(s)
      BY <1>0, <2>1, <2>3 DEF TypeOK, Established, Step, OrgOf
    <3>2. \A t \in Step : At(s, t)' => At(s, t)
      BY <2>1, <3>1 DEF At, Step
    <3> QED
      BY <1>0, <2>1, <3>1, <3>2 DEF Established, Step
  <2> QED
    BY <2>2, <2>3
<1>6. ASSUME NEW n \in Spelling, NamespaceController(n) PROVE Established(s)'
  BY <1>0, <1>6, EstablishedStays DEF NamespaceController
<1>7. ASSUME NEW id \in OrgId, Operators(id) PROVE Established(s)'
  BY <1>0, <1>7, EstablishedStays DEF Operators
<1>8. ASSUME NEW u \in User, AccountRemoved(u) PROVE Established(s)'
  BY <1>0, <1>8, EstablishedStays DEF AccountRemoved
<1>9. CASE UNCHANGED vars
  BY <1>0, <1>9, EstablishedStays DEF vars
<1> QED
  BY <1>1, <1>2, <1>3, <1>4, <1>5, <1>6, <1>7, <1>8, <1>9 DEF Next

-----------------------------------------------------------------------------
(* What a step can do to a row, to its memberships and to its namespace *)

LEMMA RowEffects ==
  ASSUME TypeOK, ControlInv, NEW r \in Request, Writes(r), NEW id \in OrgId
  PROVE  /\ issued \subseteq issued'
         /\ HasRow(id) /\ ~ HasRow(id)' => DeletesRow(r) /\ OrgOf(r) = id
         /\ ~ HasRow(id) /\ HasRow(id)' =>
              InsertsOrg(r) /\ id \notin issued /\ id \in issued'
         /\ id \in issued' \ issued => InsertsOrg(r) /\ HasRow(id)'
<1>0. /\ organizations \in [OrgId -> Row \cup {NoRow}] /\ issued \subseteq OrgId
      /\ organizations' \in [OrgId -> Row \cup {NoRow}]
  BY WriteType DEF TypeOK, StoresTypeOK
<1>1. CASE UNCHANGED <<stores, created>>
  BY <1>1 DEF stores, HasRow
<1>2. CASE InsertsOrg(r)
  <2>1. Trim[call[r].name] \in Name /\ Slugify[call[r].slug] \in Slug
    BY <1>2, CallFields, OrganizationsAssumption
    DEF TypeOK, ControlInv, Established, InsertsOrg
  <2>2. PICK new \in OrgId : InsertOrganizationRow(new, Trim[call[r].name], Slugify[call[r].slug])
    BY <1>2 DEF InsertsOrg, Inserts
  <2>3. [name |-> Trim[call[r].name], slug |-> Slugify[call[r].slug]] # NoRow
    BY <2>1, NoRowAssumption
  <2> QED
    BY <1>0, <1>2, <2>2, <2>3 DEF InsertOrganizationRow, HasRow
<1>4. CASE UNCHANGED created /\ (AddsOwner(r) \/ EnsuresNs(r) \/ DeletesNs(r) \/ CreatesCR(r))
  <2>1. UNCHANGED <<organizations, issued>>
    BY <1>4 DEF AddsOwner, InsertsOwner, InsertMemberRow, EnsuresNs, EnsureOrgNamespace,
                DeletesNs, DeleteOrgNamespace, CreatesCR, CreateResource
  <2> QED
    BY <2>1 DEF HasRow
<1>5. CASE DeletesRow(r)
  BY <1>0, <1>5, WritesWhere DEF DeletesRow, DeleteOrganizationRow, HasRow
<1>6. CASE SetsRow(r)
  <2>1. OrgOf(r) \in OrgId /\ UNCHANGED issued
    BY <1>6, WritesWhere DEF SetsRow, UpdateOrganizationRow
  <2>2. CASE ~ HasRow(OrgOf(r))
    BY <1>0, <1>6, <2>1, <2>2 DEF SetsRow, UpdateOrganizationRow, HasRow
  <2>3. CASE HasRow(OrgOf(r))
    <3>1. organizations' = [organizations EXCEPT
                              ![OrgOf(r)] = UpdatedRow(organizations[OrgOf(r)], call[r])]
      BY <1>6, <2>3 DEF SetsRow, UpdateOrganizationRow
    <3>2. UpdatedRow(organizations[OrgOf(r)], call[r]) # NoRow
      BY <1>6, <2>3, UpdatedRowType, NoRowAssumption DEF SetsRow, Row
    <3> QED
      BY <1>0, <2>1, <2>3, <3>1, <3>2 DEF HasRow
  <2> QED
    BY <2>2, <2>3
<1> QED
  BY <1>1, <1>2, <1>4, <1>5, <1>6 DEF Writes

LEMMA MemberEffects ==
  ASSUME TypeOK, ControlInv, NEW r \in Request, Writes(r), NEW id \in OrgId, NEW u \in User
  PROVE  /\ users' = users
         /\ \/ members'[id][u] = members[id][u]
            \/ /\ AddsOwner(r) /\ OrgOf(r) = id /\ u = call[r].user
               /\ HasRow(id) /\ members'[id][u] = "owner"
            \/ DeletesRow(r) /\ OrgOf(r) = id /\ members'[id][u] = "none"
<1>0. members \in [OrgId -> [User -> Role \cup {"none"}]]
  BY DEF TypeOK, StoresTypeOK
<1>2. CASE AddsOwner(r)
  BY <1>0, <1>2, WritesWhere DEF AddsOwner, InsertsOwner, InsertMemberRow, MemberRowInsertable
<1>3. CASE DeletesRow(r)
  BY <1>0, <1>3, WritesWhere DEF DeletesRow, DeleteOrganizationRow
<1>4. CASE \/ UNCHANGED <<stores, created>>
           \/ InsertsOrg(r) \/ EnsuresNs(r) \/ DeletesNs(r) \/ SetsRow(r) \/ CreatesCR(r)
  <2>1. UNCHANGED <<users, members>>
    BY <1>4 DEF stores, InsertsOrg, Inserts, InsertOrganizationRow, EnsuresNs,
                EnsureOrgNamespace, DeletesNs, DeleteOrgNamespace, CreatesCR, CreateResource,
                SetsRow, UpdateOrganizationRow
  <2> QED
    BY <2>1
<1> QED
  BY <1>2, <1>3, <1>4 DEF Writes

LEMMA NamespaceEffects ==
  ASSUME TypeOK, ControlInv, NEW r \in Request, Writes(r), NEW n \in Spelling
  PROVE  \/ namespaces'[n] = namespaces[n]
         \/ /\ EnsuresNs(r) /\ NsOf(r) = n /\ OrgOf(r) = Uuid[n]
            /\ namespaces[n] = "absent" /\ namespaces'[n] = "active"
         \/ /\ DeletesNs(r) /\ NsOf(r) = n /\ OrgOf(r) = Uuid[n]
            /\ namespaces[n] = "active" /\ namespaces'[n] = "terminating"
<1>0. namespaces \in [Spelling -> Phase]
  BY DEF TypeOK, StoresTypeOK
<1>2. CASE EnsuresNs(r)
  BY <1>0, <1>2, WritesWhere DEF EnsuresNs, EnsureOrgNamespace
<1>3. CASE DeletesNs(r)
  BY <1>0, <1>3, WritesWhere DEF DeletesNs, DeleteOrgNamespace
<1>4. CASE \/ UNCHANGED <<stores, created>>
           \/ InsertsOrg(r) \/ AddsOwner(r) \/ DeletesRow(r) \/ SetsRow(r) \/ CreatesCR(r)
  <2>1. UNCHANGED namespaces
    BY <1>4 DEF stores, InsertsOrg, Inserts, InsertOrganizationRow, AddsOwner, InsertsOwner,
                InsertMemberRow, DeletesRow, DeleteOrganizationRow, CreatesCR, CreateResource,
                SetsRow, UpdateOrganizationRow
  <2> QED
    BY <2>1
<1> QED
  BY <1>2, <1>3, <1>4 DEF Writes

-----------------------------------------------------------------------------
(* What the other steps do, and what no step does *)

OtherStep ==
  \/ \E r \in Request : Begin(r) \/ Cancel(r) \/ Crash(r)
  \/ \E n \in Spelling : NamespaceController(n)
  \/ \E id \in OrgId : Operators(id)
  \/ \E u \in User : AccountRemoved(u)
  \/ UNCHANGED vars

LEMMA NextSplit == [Next]_vars => (\E r \in Request : Takes(r)) \/ OtherStep
BY DEF Next, Takes, OtherStep

\* Where a request gets to when it begins.
LEMMA Beginning ==
  ASSUME TypeOK, ControlInv, NEW r \in Request, Begin(r)
  PROVE  /\ pc[r] = "idle" /\ created[r] = NoId /\ code[r] = "none" /\ late[r] = "none"
         /\ pc'[r] \in {"insertOrg", "readBack", "checkAdmin", "checkOwner", "checkMember", "done"}
         /\ code'[r] # "OK"
<1>1. /\ call[r].op \in Op /\ pc[r] = "idle" /\ created[r] = NoId /\ code[r] = "none"
      /\ late[r] = "none"
  BY CallFields DEF Begin, TypeOK, ControlInv, Established
<1>2. FirstStep[call[r].op] \in {"insertOrg", "readBack", "checkAdmin", "checkOwner", "checkMember"}
  BY <1>1 DEF FirstStep, Op
<1>3. Rejection(call[r]) # "OK"
  BY DEF Rejection
<1> QED
  BY <1>1, <1>2, <1>3 DEF Begin, TypeOK

\* The steps other than those of handlers and of late writes leave rows, ids and
\* requests alone.
LEMMA OtherSteps ==
  ASSUME TypeOK, OtherStep
  PROVE  /\ UNCHANGED <<organizations, issued, call, created, dirty, errs, late>>
         /\ users' \subseteq users
         /\ \A s \in Request : pc'[s] \in Step => \/ pc'[s] = pc[s]
                                                  \/ Begin(s) /\ pc[s] = "idle"
         /\ \A s \in Request : pc[s] # "idle" => pc'[s] # "idle"
         /\ \A s \in Request : code'[s] = code[s] \/ Begin(s)
<1>1. ASSUME NEW r \in Request, Begin(r) \/ Cancel(r) \/ Crash(r)
      PROVE  /\ UNCHANGED <<users, organizations, issued, call, created, dirty, errs, late>>
             /\ \A s \in Request : pc'[s] \in Step => \/ pc'[s] = pc[s]
                                                      \/ Begin(s) /\ pc[s] = "idle"
             /\ \A s \in Request : pc[s] # "idle" => pc'[s] # "idle"
             /\ \A s \in Request : code'[s] = code[s] \/ Begin(s)
  <2>1. CASE Begin(r)
    <3>1. /\ UNCHANGED <<users, organizations, issued, call, created, dirty, errs, late>>
          /\ pc[r] = "idle"
          /\ \A s \in Request : s # r => pc'[s] = pc[s] /\ code'[s] = code[s]
      BY <2>1 DEF Begin, stores, TypeOK
    <3> QED
      BY <2>1, <3>1
  <2>2. CASE Cancel(r)
    BY <2>2 DEF Cancel, stores
  <2>3. CASE Crash(r)
    BY <2>3 DEF Crash, stores, Step, TypeOK
  <2> QED
    BY <1>1, <2>1, <2>2, <2>3
<1>2. ASSUME NEW n \in Spelling, NamespaceController(n)
      PROVE  UNCHANGED <<users, organizations, issued, call, created, dirty, errs, late, pc, code>>
  BY <1>2 DEF NamespaceController, NamespaceFinalized
<1>3. ASSUME NEW id \in OrgId, Operators(id)
      PROVE  UNCHANGED <<users, organizations, issued, call, created, dirty, errs, late, pc, code>>
  BY <1>3 DEF Operators, InsertMemberRow
<1>4. ASSUME NEW u \in User, AccountRemoved(u)
      PROVE  /\ UNCHANGED <<organizations, issued, call, created, dirty, errs, late, pc, code>>
             /\ users' \subseteq users
  BY <1>4 DEF AccountRemoved, DeleteUserRow
<1>5. CASE UNCHANGED vars
  BY <1>5 DEF vars, stores
<1> QED
  BY <1>1, <1>2, <1>3, <1>4, <1>5 DEF OtherStep

\* What they may do to namespaces.
LEMMA OtherNamespaces ==
  ASSUME TypeOK, OtherStep, NEW n \in Spelling
  PROVE  \/ namespaces'[n] = namespaces[n]
         \/ namespaces[n] = "terminating" /\ namespaces'[n] = "absent"
<1>1. namespaces \in [Spelling -> Phase]
  BY DEF TypeOK, StoresTypeOK
<1>2. ASSUME NEW m \in Spelling, NamespaceController(m)
      PROVE  \/ namespaces'[n] = namespaces[n]
             \/ namespaces[n] = "terminating" /\ namespaces'[n] = "absent"
  BY <1>1, <1>2 DEF NamespaceController, NamespaceFinalized
<1>3. ASSUME NEW r \in Request, Begin(r) \/ Cancel(r) \/ Crash(r) PROVE UNCHANGED namespaces
  BY <1>3 DEF Begin, Cancel, Crash, stores
<1>4. ASSUME NEW id \in OrgId, Operators(id) PROVE UNCHANGED namespaces
  BY <1>4 DEF Operators, InsertMemberRow
<1>5. ASSUME NEW u \in User, AccountRemoved(u) PROVE UNCHANGED namespaces
  BY <1>5 DEF AccountRemoved, DeleteUserRow
<1>6. CASE UNCHANGED vars
  BY <1>6 DEF vars, stores
<1> QED
  BY <1>2, <1>3, <1>4, <1>5, <1>6 DEF OtherStep

\* And to memberships.
LEMMA OtherMembers ==
  ASSUME TypeOK, OtherStep, NEW id \in OrgId, NEW u \in User
  PROVE  \/ members'[id][u] = members[id][u]
         \/ HasRow(id) /\ members[id][u] # "owner" /\ members'[id][u] # "owner"
         \/ members[id][u] \in {"admin", "member"} /\ members'[id][u] = "none"
         \/ u \notin users' /\ members'[id][u] = "none"
<1>0. members \in [OrgId -> [User -> Role \cup {"none"}]]
  BY DEF TypeOK, StoresTypeOK
<1>1. ASSUME NEW r \in Request, Begin(r) \/ Cancel(r) \/ Crash(r) PROVE UNCHANGED members
  BY <1>1 DEF Begin, Cancel, Crash, stores
<1>2. ASSUME NEW n \in Spelling, NamespaceController(n) PROVE UNCHANGED members
  BY <1>2 DEF NamespaceController, NamespaceFinalized
<1>3. ASSUME NEW i \in OrgId, Operators(i)
      PROVE  \/ members'[id][u] = members[id][u]
             \/ HasRow(id) /\ members[id][u] # "owner" /\ members'[id][u] # "owner"
             \/ members[id][u] \in {"admin", "member"} /\ members'[id][u] = "none"
  <2>1. PICK seat \in Seat :
          \/ /\ MemberRowInsertable(i, seat.user)
             /\ InsertMemberRow(i, seat.user, seat.role)
          \/ /\ members[i][seat.user] = seat.role
             /\ InsertMemberRow(i, seat.user, "none")
    BY <1>3 DEF Operators
  <2>2. seat.user \in User /\ seat.role \in {"admin", "member"}
    BY OrganizationsAssumption
  <2>3. CASE MemberRowInsertable(i, seat.user) /\ InsertMemberRow(i, seat.user, seat.role)
    BY <1>0, <2>2, <2>3 DEF MemberRowInsertable, InsertMemberRow
  <2>4. CASE members[i][seat.user] = seat.role /\ InsertMemberRow(i, seat.user, "none")
    BY <1>0, <2>2, <2>4 DEF InsertMemberRow
  <2> QED
    BY <2>1, <2>3, <2>4
<1>4. ASSUME NEW v \in User, AccountRemoved(v)
      PROVE  \/ members'[id][u] = members[id][u]
             \/ u \notin users' /\ members'[id][u] = "none"
  BY <1>0, <1>4 DEF AccountRemoved, DeleteUserRow
<1>5. CASE UNCHANGED vars
  BY <1>5 DEF vars, stores
<1> QED
  BY <1>1, <1>2, <1>3, <1>4, <1>5 DEF OtherStep

\* Requests are not forgotten: what one asked for, which organization it created
\* and that it began.
LEMMA Memory ==
  ASSUME TypeOK, ControlInv, [Next]_vars, NEW r \in Request
  PROVE  /\ call' = call
         /\ created[r] # NoId => created'[r] = created[r]
         /\ pc[r] # "idle" => pc'[r] # "idle"
         /\ OrgOf(r) # NoId => OrgOf(r)' = OrgOf(r)
<1>1. /\ call' = call
      /\ created[r] # NoId => created'[r] = created[r]
      /\ pc[r] # "idle" => pc'[r] # "idle"
  <2>1. ASSUME NEW q \in Request, Takes(q)
        PROVE  /\ call' = call
               /\ created[r] # NoId => created'[r] = created[r]
               /\ pc[r] # "idle" => pc'[r] # "idle"
    <3>1. (Advances(q) \/ Arrived(q)) /\ Writes(q) /\ call' = call
      BY <2>1, TakesShape DEF Advances, Arrived, Goto, Reply
    <3>2. created[r] # NoId => created'[r] = created[r]
      BY <3>1, CreatedStays DEF ControlInv, Established
    <3>3. pc[r] # "idle" => pc'[r] # "idle"
      BY <3>1 DEF Advances, Arrived, Goto, Reply, Step, TypeOK
    <3> QED
      BY <3>1, <3>2, <3>3
  <2>2. CASE OtherStep
    BY <2>2, OtherSteps
  <2> QED
    BY <2>1, <2>2, NextSplit
<1> QED
  BY <1>1 DEF OrgOf

\* A handler gets to a step by its own doing; the arrival of what it lost there
\* is no new step of its.
LEMMA AtFrom ==
  ASSUME TypeOK, ControlInv, [Next]_vars, NEW s \in Request, NEW t \in Step, At(s, t)',
         ~ At(s, t)
  PROVE  pc'[s] = t /\ pc[s] # t /\ (Handler(s) \/ Begin(s))
<1>1. CASE Handler(s)
  <2>1. pc[s] \in Step /\ (UNCHANGED late \/ late'[s] = pc[s])
    BY <1>1, HandlerShape, HandlerMoves DEF Moves, Advances
  <2> QED
    BY <1>1, <2>1 DEF At
<1>2. ASSUME NEW r \in Request, Takes(r), r # s PROVE FALSE
  BY <1>2, OthersStay DEF At
<1>3. CASE Arrives(s)
  <2>1. FALSE
    BY <1>3, ArrivalShape DEF Arrived, At, TypeOK, Step
  <2> QED
    BY <2>1
<1>4. CASE OtherStep
  BY <1>4, OtherSteps DEF At, Step
<1> QED
  BY <1>1, <1>2, <1>3, <1>4, NextSplit DEF Takes

-----------------------------------------------------------------------------
(* What the stores hold *)

LEMMA StoreInit == Init => StoreInv
BY OrganizationsAssumption
DEF Init, StoresInit, StoreInv, CascadeInv, IssuedInv, OnceInv, UniqueInv, HasRow, At

LEMMA CascadeStep ==
  TypeOK /\ ControlInv /\ StoreInv /\ [Next]_vars => CascadeInv'
<1> SUFFICES ASSUME TypeOK, ControlInv, StoreInv, [Next]_vars PROVE CascadeInv'
  OBVIOUS
<1>0. CascadeInv
  BY DEF StoreInv
<1>1. ASSUME NEW id \in OrgId
      PROVE  (/\ HasRow(id) => id \in issued
              /\ ~ HasRow(id) => \A u \in User : members[id][u] = "none")'
  <2>1. ASSUME NEW r \in Request, Takes(r)
        PROVE  (/\ HasRow(id) => id \in issued
                /\ ~ HasRow(id) => \A u \in User : members[id][u] = "none")'
    <3>1. Writes(r)
      BY <2>1, TakesShape
    <3>2. HasRow(id)' => id \in issued'
      BY <1>0, <3>1, RowEffects DEF CascadeInv
    <3>3. ASSUME ~ HasRow(id)', NEW u \in User PROVE members'[id][u] = "none"
      <4>1. CASE HasRow(id)
        <5>1. DeletesRow(r) /\ OrgOf(r) = id
          BY <3>1, <3>3, <4>1, RowEffects
        <5> QED
          BY <5>1 DEF DeletesRow, DeleteOrganizationRow, TypeOK, StoresTypeOK
      <4>2. CASE ~ HasRow(id)
        BY <1>0, <3>1, <4>2, MemberEffects DEF CascadeInv
      <4> QED
        BY <4>1, <4>2
    <3> QED
      BY <3>2, <3>3
  <2>2. CASE OtherStep
    <3>1. UNCHANGED <<organizations, issued>>
      BY <2>2, OtherSteps
    <3>2. (HasRow(id) => id \in issued) /\ (~ HasRow(id) => \A u \in User : members[id][u] = "none")
      BY <1>0 DEF CascadeInv
    <3> QED
      BY <2>2, <3>1, <3>2, OtherMembers DEF HasRow
  <2> QED
    BY <2>1, <2>2, NextSplit
<1>2. ASSUME NEW n \in Spelling, namespaces'[n] # "absent" PROVE Uuid[n] \in issued'
  <2>1. ASSUME NEW r \in Request, Takes(r) PROVE Uuid[n] \in issued'
    <3>1. Writes(r)
      BY <2>1, TakesShape
    <3>2. Uuid[n] \in issued
      BY <1>0, <1>2, <3>1, NamespaceEffects
      DEF CascadeInv, EnsuresNs, StoreInv, IssuedInv
    <3>3. Uuid[n] \in OrgId
      BY <3>2 DEF TypeOK, StoresTypeOK
    <3> QED
      BY <3>1, <3>2, <3>3, RowEffects
  <2>2. CASE OtherStep
    BY <1>0, <1>2, <2>2, OtherSteps, OtherNamespaces DEF CascadeInv
  <2> QED
    BY <2>1, <2>2, NextSplit
<1> QED
  BY <1>1, <1>2 DEF CascadeInv

LEMMA IssuedStep ==
  TypeOK /\ ControlInv /\ StoreInv /\ [Next]_vars => IssuedInv'
<1> SUFFICES ASSUME TypeOK, ControlInv, StoreInv, [Next]_vars, NEW s \in Request
             PROVE  (/\ created[s] # NoId => created[s] \in issued
                     /\ At(s, "ensureNs") => OrgOf(s) \in issued)'
  BY DEF IssuedInv
<1>0. /\ created[s] # NoId => created[s] \in issued
      /\ At(s, "ensureNs") => OrgOf(s) \in issued
      /\ issued \subseteq OrgId
  BY DEF StoreInv, IssuedInv, TypeOK, StoresTypeOK
<1>1. issued \subseteq issued'
  BY <1>0, NextSplit, TakesShape, RowEffects, OtherSteps
<1>2. created'[s] # NoId => created'[s] \in issued'
  <2>1. ASSUME NEW r \in Request, Takes(r), created'[s] # created[s]
        PROVE  created'[s] \in issued'
    <3>1. PICK id \in OrgId : Inserts(r, id) /\ created' = [created EXCEPT ![r] = id]
      BY <2>1, TakesShape DEF Writes, InsertsOrg
    <3> QED
      BY <2>1, <3>1 DEF Inserts, InsertOrganizationRow, TypeOK
  <2> QED
    BY <1>0, <1>1, <2>1, NextSplit, OtherSteps
<1>3. ASSUME At(s, "ensureNs")' PROVE OrgOf(s)' \in issued'
  <2>1. CASE At(s, "ensureNs")
    <3>1. OrgOf(s) # NoId
      BY <2>1, TargetType, SpellingAssumption DEF Step, Opening
    <3> QED
      BY <1>0, <1>1, <2>1, <3>1, Memory
  <2>2. CASE ~ At(s, "ensureNs")
    <3>1. Handler(s) /\ pc'[s] = "ensureNs" /\ pc[s] # "ensureNs"
      BY <1>3, <2>2, AtFrom, Beginning DEF Step
    <3>2. InsertOwner(s) \/ CheckMember(s)
      BY <3>1
      DEF Handler, InsertOrg, EnsureNs, Compensate, Answer, ReadBack, CheckAdmin, UpdateRow,
          CheckOwner, DeleteNs, DeleteRow, CreateCR, Goto, Reply, TypeOK
    <3>3. CASE InsertOwner(s)
      <4>1. call[s].op = "create" /\ OrgOf(s) # NoId
        BY <3>3, CallFields
        DEF InsertOwner, ControlInv, Established, StepsOf, Step, Op, TypeOK, At, Opening
      <4>2. OrgOf(s) = created[s] /\ OrgOf(s)' = OrgOf(s)
        BY <4>1, Memory DEF OrgOf
      <4> QED
        BY <1>0, <1>1, <4>1, <4>2
    <3>4. CASE CheckMember(s)
      <4>1. LooksUp(s) /\ RoleOf(OrgOf(s), call[s].user) # "none"
        BY <3>1, <3>4 DEF CheckMember, Reply, TypeOK
      <4>2. OrgOf(s) \in OrgId /\ call[s].user \in User /\ OrgOf(s)' = OrgOf(s)
        BY <3>4, <4>1, OrgType, Memory
        DEF CheckMember, LooksUp, ControlInv, Established, At, Step
      <4>3. OrgOf(s) \in issued
        BY <4>1, <4>2 DEF RoleOf, StoreInv, CascadeInv
      <4> QED
        BY <1>1, <4>2, <4>3
    <3> QED
      BY <3>2, <3>3, <3>4
  <2> QED
    BY <2>1, <2>2
<1> QED
  BY <1>2, <1>3

LEMMA OnceStep ==
  TypeOK /\ ControlInv /\ StoreInv /\ [Next]_vars => OnceInv'
<1> SUFFICES ASSUME TypeOK, ControlInv, StoreInv, [Next]_vars,
                    NEW r \in Request, NEW s \in Request, r # s, created'[r] # NoId
             PROVE  created'[r] # created'[s]
  BY DEF OnceInv
<1>0. /\ created[r] # NoId => created[r] \in issued /\ created[r] # created[s]
      /\ created[s] # NoId => created[s] \in issued /\ created[s] # created[r]
  BY DEF StoreInv, IssuedInv, OnceInv
<1>1. ASSUME NEW q \in Request, Writes(q) PROVE created'[r] # created'[s]
  <2>1. CASE created' = created
    BY <1>0, <2>1
  <2>2. CASE created' # created
    <3>1. PICK id \in OrgId \ issued : created' = [created EXCEPT ![q] = id]
      BY <1>1, <2>2 DEF Writes, InsertsOrg, Inserts, InsertOrganizationRow
    <3>2. id # NoId
      BY SpellingAssumption
    <3> QED
      BY <1>0, <3>1, <3>2 DEF TypeOK
  <2> QED
    BY <2>1, <2>2
<1>2. CASE OtherStep
  BY <1>0, <1>2, OtherSteps
<1> QED
  BY <1>1, <1>2, NextSplit, TakesShape

LEMMA UniqueStep ==
  TypeOK /\ ControlInv /\ StoreInv /\ [Next]_vars => UniqueInv'
<1> SUFFICES ASSUME TypeOK, ControlInv, StoreInv, [Next]_vars PROVE UniqueInv'
  OBVIOUS
<1>0. UniqueInv /\ organizations \in [OrgId -> Row \cup {NoRow}]
  BY DEF StoreInv, TypeOK, StoresTypeOK
<1>1. ASSUME NEW r \in Request, Takes(r) PROVE UniqueInv'
  <2>1. Writes(r)
    BY <1>1, TakesShape
  <2>2. CASE InsertsOrg(r)
    <3> DEFINE slug == Slugify[call[r].slug]
    <3>1. ~ SlugTaken(slug, NoId)
      BY <2>2 DEF InsertsOrg, Inserts
    <3>2. \A other \in OrgId : HasRow(other) => organizations[other].slug # slug
      BY <3>1, SpellingAssumption DEF SlugTaken
    <3>3. PICK id \in OrgId :
             organizations' = [organizations EXCEPT
                                 ![id] = [name |-> Trim[call[r].name], slug |-> slug]]
      BY <2>2 DEF InsertsOrg, Inserts, InsertOrganizationRow
    <3> QED
      BY <1>0, <3>2, <3>3 DEF UniqueInv, HasRow
  <2>3. CASE SetsRow(r)
    <3> DEFINE id == OrgOf(r)
               row == UpdatedRow(organizations[id], call[r])
    <3>0. id \in OrgId
      BY <2>3, WritesWhere
    <3>1. CASE ~ HasRow(id)
      BY <1>0, <2>3, <3>0, <3>1 DEF SetsRow, UpdateOrganizationRow, HasRow, UniqueInv
    <3>2. CASE HasRow(id)
      <4>1. \A other \in OrgId : other # id /\ HasRow(other) =>
              organizations[other].slug # row.slug
        BY <2>3, <3>2 DEF SetsRow, SlugTaken
      <4>2. organizations' = [organizations EXCEPT ![id] = row]
        BY <2>3, <3>2 DEF SetsRow, UpdateOrganizationRow
      <4> HIDE DEF row, id
      <4> QED
        BY <1>0, <3>0, <3>2, <4>1, <4>2 DEF UniqueInv, HasRow
    <3> QED
      BY <3>1, <3>2
  <2>4. CASE DeletesRow(r)
    <3>1. \A i \in OrgId : HasRow(i)' => HasRow(i) /\ organizations'[i] = organizations[i]
      BY <1>0, <2>4 DEF DeletesRow, DeleteOrganizationRow, HasRow
    <3> QED
      BY <1>0, <3>1 DEF UniqueInv
  <2>5. CASE \/ UNCHANGED <<stores, created>>
             \/ AddsOwner(r) \/ EnsuresNs(r) \/ DeletesNs(r) \/ CreatesCR(r)
    <3>1. UNCHANGED organizations
      BY <2>5 DEF stores, AddsOwner, InsertsOwner, InsertMemberRow, EnsuresNs,
                  EnsureOrgNamespace, DeletesNs, DeleteOrgNamespace, CreatesCR, CreateResource
    <3> QED
      BY <1>0, <3>1 DEF UniqueInv, HasRow
  <2> QED
    BY <2>1, <2>2, <2>3, <2>4, <2>5 DEF Writes
<1>2. CASE OtherStep
  BY <1>0, <1>2, OtherSteps DEF UniqueInv, HasRow
<1> QED
  BY <1>1, <1>2, NextSplit

LEMMA StoreStep == TypeOK /\ ControlInv /\ StoreInv /\ [Next]_vars => StoreInv'
BY CascadeStep, IssuedStep, OnceStep, UniqueStep DEF StoreInv

\* The base of everything else: types, control and stores.
LEMMA BaseInvariant == Spec => [](TypeOK /\ ControlInv /\ StoreInv)
<1>1. Init => TypeOK /\ ControlInv /\ StoreInv
  BY TypeInit, ControlInit, StoreInit
<1>2. TypeOK /\ ControlInv /\ StoreInv /\ [Next]_vars
        => (TypeOK /\ ControlInv /\ StoreInv)'
  BY TypeStep, ControlStep, StoreStep
<1> QED
  BY <1>1, <1>2, PTL DEF Spec

\* In every reachable state the stores hold what their schemas allow.
THEOREM TypeCorrect == Spec => []TypeOK
BY BaseInvariant, PTL

\* No two organizations have slugs that differ only in case or spaces.
THEOREM SlugsAreExclusive == Spec => []SlugsExclusive
<1>1. TypeOK /\ StoreInv => SlugsExclusive
  <2> SUFFICES ASSUME TypeOK, UniqueInv, NEW i \in OrgId, NEW j \in OrgId,
                      i # j, HasRow(i), HasRow(j)
               PROVE  Slugify[organizations[i].slug] # Slugify[organizations[j].slug]
    BY DEF SlugsExclusive, StoreInv
  <2>1. organizations[i].slug \in Slug /\ organizations[j].slug \in Slug
    BY DEF TypeOK, StoresTypeOK, Row, HasRow
  <2> QED
    BY <2>1, OrganizationsAssumption DEF UniqueInv
<1> QED
  BY <1>1, BaseInvariant, PTL

-----------------------------------------------------------------------------
(* Owners, and what only they can do *)

\* An organization a request created is no other's.
LEMMA CreatorOf ==
  ASSUME TypeOK, ControlInv, StoreInv, NEW r \in Request, NEW s \in Request,
         created[r] = created[s], created[r] \in OrgId
  PROVE  r = s
BY SpellingAssumption DEF StoreInv, OnceInv

LEMMA DeletesWorkStays ==
  ASSUME TypeOK, ControlInv, [Next]_vars, NEW d \in Request, NEW r \in Request,
         created[r] \in OrgId, DeletesWorkOf(d, r)
  PROVE  created'[r] = created[r] /\ DeletesWorkOf(d, r)'
BY Memory, SpellingAssumption DEF DeletesWorkOf

LEMMA OwnersStep ==
  TypeOK /\ ControlInv /\ StoreInv /\ OwnersInv /\ [Next]_vars => OwnersInv'
<1> SUFFICES ASSUME TypeOK, ControlInv, StoreInv, OwnersInv, [Next]_vars,
                    NEW id \in OrgId, NEW u \in User, members'[id][u] = "owner"
             PROVE  \E r \in Request : created'[r] = id /\ call'[r].user = u
  BY DEF OwnersInv
<1>1. CASE members[id][u] = "owner"
  BY <1>1, Memory, SpellingAssumption DEF OwnersInv
<1>2. ASSUME members[id][u] # "owner", NEW r \in Request, Takes(r)
      PROVE  created'[r] = id /\ call'[r].user = u
  <2>1. AddsOwner(r) /\ OrgOf(r) = id /\ u = call[r].user
    BY <1>2, TakesShape, MemberEffects
  <2>2. created[r] = id
    BY <2>1, CallFields
    DEF AddsOwner, OrgOf, ControlInv, Established, StepsOf, Step, Op, TypeOK
  <2> QED
    BY <2>1, <2>2, Memory, SpellingAssumption
<1>3. CASE OtherStep
  BY <1>1, <1>3, OtherMembers
<1> QED
  BY <1>1, <1>2, <1>3, NextSplit

LEMMA DeletersStep ==
  TypeOK /\ ControlInv /\ OwnersInv /\ DeletersInv /\ [Next]_vars => DeletersInv'
<1> SUFFICES ASSUME TypeOK, ControlInv, OwnersInv, DeletersInv, [Next]_vars,
                    NEW d \in Request, At(d, "deleteNs")' \/ At(d, "deleteRow")'
             PROVE  \E r \in Request : created'[r] = OrgOf(d)' /\ DeletesWorkOf(d, r)'
  BY DEF DeletersInv
<1>1. ASSUME NEW r \in Request, created[r] = OrgOf(d), DeletesWorkOf(d, r), OrgOf(d) \in OrgId
      PROVE  created'[r] = OrgOf(d)' /\ DeletesWorkOf(d, r)'
  BY <1>1, Memory, DeletesWorkStays, SpellingAssumption
<1>2. CASE At(d, "deleteNs") \/ At(d, "deleteRow")
  <2>1. PICK r \in Request : created[r] = OrgOf(d) /\ DeletesWorkOf(d, r)
    BY <1>2 DEF DeletersInv
  <2>2. OrgOf(d) \in OrgId
    BY <1>2, TargetType DEF Step, Opening
  <2> QED
    BY <1>1, <2>1, <2>2
<1>3. CASE ~ (At(d, "deleteNs") \/ At(d, "deleteRow"))
  <2>1. Handler(d) /\ pc'[d] \in {"deleteNs", "deleteRow"} /\ pc[d] # "deleteNs"
    BY <1>3, AtFrom, Beginning DEF Step, At
  <2>2. CheckOwner(d)
    BY <2>1
    DEF Handler, InsertOrg, InsertOwner, EnsureNs, Compensate, Answer, ReadBack, CheckAdmin,
        UpdateRow, DeleteNs, DeleteRow, CheckMember, CreateCR, Goto, Reply, TypeOK
  <2>3. /\ LooksUp(d) /\ RoleOf(OrgOf(d), call[d].user) = "owner"
        /\ pc[d] = "checkOwner"
    BY <2>1, <2>2 DEF CheckOwner, Reply, TypeOK
  <2>4. OrgOf(d) \in OrgId /\ call[d].user \in User /\ call[d].op = "delete"
    BY <2>3, OrgType, CallFields
    DEF LooksUp, Step, ControlInv, Established, StepsOf, Op, TypeOK, At
  <2>5. PICK r \in Request : created[r] = OrgOf(d) /\ call[r].user = call[d].user
    BY <2>3, <2>4 DEF OwnersInv, RoleOf
  <2>6. DeletesWorkOf(d, r)
    BY <2>3, <2>4, <2>5 DEF DeletesWorkOf
  <2> QED
    BY <1>1, <2>4, <2>5, <2>6
<1> QED
  BY <1>2, <1>3

LEMMA TerminatingStep ==
  TypeOK /\ ControlInv /\ StoreInv /\ DeletersInv /\ TerminatingInv /\ [Next]_vars
    => TerminatingInv'
<1> SUFFICES ASSUME TypeOK, ControlInv, StoreInv, DeletersInv, TerminatingInv, [Next]_vars,
                    NEW n \in Spelling, namespaces'[n] = "terminating"
             PROVE  \E d, r \in Request : created'[r] = Uuid[n] /\ DeletesWorkOf(d, r)'
  BY DEF TerminatingInv
<1>1. \E d, r \in Request : created[r] = Uuid[n] /\ DeletesWorkOf(d, r)
  <2>1. CASE namespaces[n] = "terminating"
    BY <2>1 DEF TerminatingInv
  <2>2. ASSUME namespaces[n] # "terminating", NEW q \in Request, Takes(q)
        PROVE  \E r \in Request : created[r] = Uuid[n] /\ DeletesWorkOf(q, r)
    <3>1. DeletesNs(q) /\ OrgOf(q) = Uuid[n]
      BY <2>2, TakesShape, NamespaceEffects
    <3> QED
      BY <3>1 DEF DeletesNs, DeletersInv
  <2>3. CASE OtherStep
    BY <2>1, <2>3, OtherNamespaces
  <2> QED
    BY <2>1, <2>2, <2>3, NextSplit
<1>2. Uuid[n] \in OrgId
  <2>1. namespaces[n] # "absent"
    BY NextSplit, TakesShape, NamespaceEffects, OtherNamespaces
  <2> QED
    BY <2>1 DEF StoreInv, CascadeInv, TypeOK, StoresTypeOK
<1> QED
  BY <1>1, <1>2, DeletesWorkStays

\* Owned(r) begins with the second INSERT and holds on to what it says of created.
LEMMA OwnedFrom ==
  ASSUME TypeOK, ControlInv, [Next]_vars, NEW r \in Request, Owned(r)'
  PROVE  /\ created[r] \in OrgId /\ created'[r] = created[r] /\ call' = call
         /\ call[r].op = "create" /\ call[r].user \in User
         /\ \/ Owned(r) /\ (pc'[r] # "ensureNs" => pc[r] # "ensureNs" \/ EnsureNs(r))
            \/ pc'[r] = "ensureNs" /\ AddsOwner(r)
<1>1. call' = call /\ call[r].op = "create"
  BY Memory DEF Owned
<1>2. CASE Owned(r)
  <2>1. /\ created[r] # NoId /\ call[r].user \in User
    BY <1>2 DEF Owned, ControlInv, Established, Step, At, Opening, OrgOf
  <2>2. created'[r] = created[r] /\ created[r] \in OrgId
    BY <2>1, Memory DEF TypeOK
  <2>3. pc[r] = "ensureNs" /\ pc'[r] # "ensureNs" => EnsureNs(r)
    <3>1. ASSUME pc[r] = "ensureNs", NEW q \in Request, Handler(q)
          PROVE  pc'[r] = pc[r] \/ EnsureNs(r)
      BY <3>1, HandlerShape, OthersStay
      DEF Takes, Handler, InsertOrg, InsertOwner, Compensate, Answer, ReadBack, CheckAdmin,
          UpdateRow, CheckOwner, DeleteNs, DeleteRow, CheckMember, CreateCR
    <3>2. ASSUME NEW q \in Request, Arrives(q) PROVE pc' = pc
      BY <3>2 DEF Arrives
    <3>3. ASSUME pc[r] = "ensureNs", OtherStep, pc'[r] # "ensureNs" PROVE FALSE
      <4>1. code[r] = "none"
        BY <3>3 DEF ControlInv, Established
      <4>2. pc'[r] # "answer" /\ code'[r] = code[r]
        BY <3>3, OtherSteps DEF Step, Begin
      <4> QED
        BY <3>3, <4>1, <4>2 DEF Owned
    <3> QED
      BY <3>1, <3>2, <3>3, NextSplit DEF Takes
  <2> QED
    BY <1>1, <1>2, <2>1, <2>2, <2>3
<1>3. CASE ~ Owned(r)
  <2>1. Handler(r)
    <3>1. ASSUME OtherStep PROVE FALSE
      BY <1>1, <1>3, <3>1, OtherSteps, Beginning DEF Owned, Step
    <3>2. ASSUME NEW q \in Request, Arrives(q) PROVE FALSE
      BY <1>1, <1>3, <3>2 DEF Arrives, Owned
    <3>3. ASSUME NEW q \in Request, Handler(q), q # r PROVE FALSE
      BY <1>1, <1>3, <3>3, OthersStay DEF Owned, Takes
    <3> QED
      BY <3>1, <3>2, <3>3, NextSplit DEF Takes
  <2>2. pc[r] \in Step /\ pc[r] \in StepsOf("create")
    BY <1>1, <2>1, HandlerShape DEF Advances, ControlInv, Established, At
  <2>3. pc'[r] = "ensureNs" /\ InsertOwner(r)
    BY <1>1, <1>3, <2>1, <2>2
    DEF Handler, InsertOrg, InsertOwner, EnsureNs, Compensate, Answer, ReadBack, CheckAdmin,
        UpdateRow, CheckOwner, DeleteNs, DeleteRow, CheckMember, CreateCR,
        Goto, Reply, TypeOK, Owned, StepsOf
  <2>4. AddsOwner(r)
    BY <2>3 DEF InsertOwner, AddsOwner, Goto, TypeOK, At
  <2>5. created[r] # NoId /\ created'[r] = created[r] /\ call[r].user \in User
    BY <1>1, <2>3, Memory DEF InsertOwner, ControlInv, Established, Step, At, Opening, OrgOf
  <2> QED
    BY <1>1, <2>3, <2>4, <2>5 DEF TypeOK
<1> QED
  BY <1>2, <1>3

\* An organization that is Owned loses its row only to a deletion of its creator.
LEMMA OwnedRowStays ==
  ASSUME TypeOK, ControlInv, StoreInv, DeletersInv, [Next]_vars,
         NEW r \in Request, Owned(r), created[r] \in OrgId,
         HasRow(created[r]), ~ HasRow(created[r])'
  PROVE  \E d \in Request : /\ Takes(d) /\ DeletesRow(d) /\ At(d, "deleteRow")
                            /\ OrgOf(d) = created[r] /\ DeletesWorkOf(d, r)
<1>0. created'[r] = created[r]
  BY Memory, SpellingAssumption
<1>1. PICK d \in Request : Takes(d)
  BY <1>0, NextSplit, OtherSteps DEF HasRow
<1>2. DeletesRow(d) /\ OrgOf(d) = created[r]
  BY <1>0, <1>1, TakesShape, RowEffects DEF HasRow
<1>3. ~ At(d, "compensate")
  <2> SUFFICES ASSUME At(d, "compensate") PROVE FALSE
    OBVIOUS
  <2>1. call[d].op = "create"
    BY CallFields DEF ControlInv, Established, Step, StepsOf, Op, TypeOK
  <2>2. d = r
    BY <1>2, <2>1, CreatorOf DEF OrgOf
  <2> QED
    BY <2>2 DEF Owned, ControlInv, Established, At
<1>4. At(d, "deleteRow")
  BY <1>2, <1>3 DEF DeletesRow
<1>5. PICK s \in Request : created[s] = OrgOf(d) /\ DeletesWorkOf(d, s)
  BY <1>4 DEF DeletersInv
<1>6. s = r
  BY <1>2, <1>5, CreatorOf
<1> QED
  BY <1>1, <1>2, <1>4, <1>5, <1>6

LEMMA StandsStep ==
  TypeOK /\ ControlInv /\ StoreInv /\ OwnerInv /\ [Next]_vars => StandsInv'
<1> SUFFICES ASSUME TypeOK, ControlInv, StoreInv, OwnerInv, [Next]_vars,
                    NEW r \in Request, Owned(r)'
             PROVE  (/\ HasRow(created[r]) /\ call[r].user \in users =>
                          members[created[r]][call[r].user] = "owner"
                     /\ (\A d \in Request : ~ DeletesWorkOf(d, r)) =>
                          /\ HasRow(created[r])
                          /\ pc[r] # "ensureNs" => namespaces[created[r]] = "active")'
  BY DEF StandsInv, Stands
<1> DEFINE id == created[r]
           u  == call[r].user
<1>0. /\ id \in OrgId /\ id # NoId /\ created'[r] = id /\ call' = call /\ u \in User
      /\ Owned(r) \/ AddsOwner(r)
      /\ Owned(r) => (pc'[r] # "ensureNs" => pc[r] # "ensureNs" \/ EnsureNs(r))
      /\ ~ Owned(r) => pc'[r] = "ensureNs"
      /\ OrgOf(r) = id /\ NsOf(r) = id
      /\ id \in Spelling /\ id \in Legal /\ Uuid[id] = id
  BY OwnedFrom, SpellingAssumption DEF OrgOf, NsOf
<1>1. ASSUME HasRow(id)', u \in users' PROVE members'[id][u] = "owner"
  <2>1. CASE Owned(r)
    <3>1. u \in users
      BY <1>1, <1>0, NextSplit, TakesShape, MemberEffects, OtherSteps
    <3>2. HasRow(id)
      <4>1. ASSUME ~ HasRow(id) PROVE FALSE
        <5>1. PICK q \in Request : Takes(q)
          BY <1>0, <1>1, <4>1, NextSplit, OtherSteps DEF HasRow
        <5>2. id \notin issued
          BY <1>0, <1>1, <4>1, <5>1, TakesShape, RowEffects DEF HasRow
        <5> QED
          BY <1>0, <5>2 DEF StoreInv, IssuedInv
      <4> QED
        BY <4>1
    <3>3. members[id][u] = "owner"
      BY <2>1, <3>1, <3>2 DEF OwnerInv, StandsInv, Stands
    <3>4. ASSUME NEW q \in Request, Takes(q) PROVE members'[id][u] = "owner"
      <4>1. ~ (DeletesRow(q) /\ OrgOf(q) = id)
        BY <1>0, <1>1 DEF DeletesRow, DeleteOrganizationRow, HasRow, TypeOK, StoresTypeOK
      <4> QED
        BY <1>0, <3>3, <3>4, <4>1, TakesShape, MemberEffects
    <3>5. CASE OtherStep
      BY <1>0, <1>1, <3>3, <3>5, OtherMembers
    <3> QED
      BY <3>4, <3>5, NextSplit
  <2>2. CASE AddsOwner(r)
    BY <1>0, <2>2 DEF AddsOwner, InsertsOwner, InsertMemberRow, TypeOK, StoresTypeOK
  <2> QED
    BY <1>0, <2>1, <2>2
<1>2. ASSUME \A d \in Request : ~ DeletesWorkOf(d, r)'
      PROVE  HasRow(id)' /\ (pc'[r] # "ensureNs" => namespaces'[id] = "active")
  <2>1. \A d \in Request : ~ DeletesWorkOf(d, r)
    BY <1>0, <1>2, DeletesWorkStays
  <2>2. HasRow(id)'
    <3>1. CASE Owned(r)
      <4>1. HasRow(id)
        BY <2>1, <3>1 DEF OwnerInv, StandsInv, Stands
      <4> QED
        BY <1>0, <2>1, <3>1, <4>1, OwnedRowStays DEF OwnerInv, HasRow
    <3>2. CASE AddsOwner(r)
      BY <1>0, <3>2 DEF AddsOwner, InsertsOwner, InsertMemberRow, MemberRowInsertable, HasRow
    <3> QED
      BY <1>0, <3>1, <3>2
  <2>3. ASSUME pc'[r] # "ensureNs" PROVE namespaces'[id] = "active"
    <3>1. Owned(r) /\ (pc[r] # "ensureNs" \/ EnsureNs(r))
      BY <1>0, <2>3
    <3>2. namespaces[id] # "terminating"
      <4> SUFFICES ASSUME namespaces[id] = "terminating" PROVE FALSE
        OBVIOUS
      <4>1. PICK d, s \in Request : created[s] = id /\ DeletesWorkOf(d, s)
        BY <1>0 DEF OwnerInv, TerminatingInv
      <4> QED
        BY <1>0, <2>1, <4>1, CreatorOf
    <3>3. CASE EnsureNs(r)
      <4>1. call[r].op = "create" /\ code[r] = "none"
        BY <3>1, <3>3 DEF Owned, EnsureNs, ControlInv, Established
      <4>2. Goto(r, "compensate") => ~ Owned(r)'
        BY <4>1 DEF Goto, Owned, TypeOK
      <4>3. EnsureOrgNamespace(id)
        BY <1>0, <3>3, <4>1, <4>2 DEF EnsureNs, Ensures
      <4> QED
        BY <1>0, <3>2, <4>3 DEF EnsureOrgNamespace, TypeOK, StoresTypeOK, Phase
    <3>4. CASE pc[r] # "ensureNs"
      <4>1. namespaces[id] = "active"
        BY <2>1, <3>1, <3>4 DEF OwnerInv, StandsInv, Stands
      <4>2. ASSUME NEW q \in Request, Takes(q) PROVE namespaces'[id] = "active"
        <5>1. ASSUME DeletesNs(q), OrgOf(q) = id PROVE FALSE
          <6>1. PICK s \in Request : created[s] = id /\ DeletesWorkOf(q, s)
            BY <5>1 DEF DeletesNs, OwnerInv, DeletersInv
          <6> QED
            BY <1>0, <2>1, <6>1, CreatorOf
        <5> QED
          BY <1>0, <4>1, <4>2, <5>1, TakesShape, NamespaceEffects
      <4> QED
        BY <1>0, <4>1, <4>2, OtherNamespaces, NextSplit
    <3> QED
      BY <3>1, <3>3, <3>4
  <2> QED
    BY <2>2, <2>3
<1> QED
  BY <1>0, <1>1, <1>2

LEMMA OwnerInit == Init => OwnerInv
BY DEF Init, StoresInit, OwnerInv, OwnersInv, DeletersInv, TerminatingInv, StandsInv,
       Stands, Owned, At

LEMMA OwnerStep == TypeOK /\ ControlInv /\ StoreInv /\ OwnerInv /\ [Next]_vars => OwnerInv'
BY OwnersStep, DeletersStep, TerminatingStep, StandsStep DEF OwnerInv

LEMMA OwnerInvariant == Spec => [](TypeOK /\ ControlInv /\ StoreInv /\ OwnerInv)
<1>1. Init => TypeOK /\ ControlInv /\ StoreInv /\ OwnerInv
  BY TypeInit, ControlInit, StoreInit, OwnerInit
<1>2. TypeOK /\ ControlInv /\ StoreInv /\ OwnerInv /\ [Next]_vars
        => (TypeOK /\ ControlInv /\ StoreInv /\ OwnerInv)'
  BY TypeStep, ControlStep, StoreStep, OwnerStep
<1> QED
  BY <1>1, <1>2, PTL DEF Spec

\* An organization whose creation was confirmed has its creator as its owner as
\* long as it has a row, whatever fails.
THEOREM ConfirmedIsOwned == Spec => []AckedOrgHasOwner
<1>1. OwnerInv => AckedOrgHasOwner
  BY DEF OwnerInv, StandsInv, Stands, AckedOrgHasOwner, Acked, Owned
<1> QED
  BY <1>1, OwnerInvariant, PTL

\* Unless its creator asked for its deletion, it has its row and its namespace.
THEOREM ConfirmedStands == Spec => []AckedOrgStands
<1>1. ControlInv /\ OwnerInv => AckedOrgStands
  BY DEF OwnerInv, StandsInv, Stands, AckedOrgStands, Acked, Owned, ControlInv, Established
<1> QED
  BY <1>1, OwnerInvariant, PTL

-----------------------------------------------------------------------------
(* What the answers say of the rows *)

LEMMA AnswerInit == Init => AnswerInv
BY DEF Init, AnswerInv, CountInv, Counts, DeletedInv, LossInv, Owned, AtMostOneDeleteOK

\* Failures and answers are not forgotten either.
LEMMA Record ==
  ASSUME TypeOK, ControlInv, [Next]_vars, NEW r \in Request
  PROVE  /\ dirty \subseteq dirty' /\ cancelled \subseteq cancelled'
         /\ code[r] = "OK" => code'[r] = "OK"
<1>1. ASSUME NEW q \in Request, Handler(q)
      PROVE  /\ dirty \subseteq dirty' /\ cancelled \subseteq cancelled'
             /\ code[r] = "OK" => code'[r] = "OK"
  <2>1. Advances(q)
    BY <1>1, HandlerShape
  <2>2. dirty \subseteq dirty' /\ cancelled \subseteq cancelled'
    BY <2>1 DEF Advances, Ends, Returns, Fails, IsLost, IsRefused, Goto, Reply
  <2>3. code[r] = "OK" => r # q
    BY <2>1 DEF Advances, ControlInv, Established, Step
  <2> QED
    BY <1>1, <2>2, <2>3, OthersStay DEF Takes
<1>2. ASSUME NEW q \in Request, Arrives(q)
      PROVE  UNCHANGED <<dirty, cancelled, code>>
  BY <1>2 DEF Arrives
<1>3. CASE OtherStep
  <2>1. cancelled \subseteq cancelled'
    BY <1>3 DEF OtherStep, Begin, Cancel, Crash, NamespaceController, Operators,
                AccountRemoved, vars
  <2>2. code[r] = "OK" => ~ Begin(r)
    BY Beginning
  <2> QED
    BY <1>3, <2>1, <2>2, OtherSteps
<1> QED
  BY <1>1, <1>2, <1>3, NextSplit DEF Takes

\* The row of an id that was issued never comes back.
LEMMA NoRebirth ==
  ASSUME TypeOK, ControlInv, [Next]_vars, NEW id \in OrgId, id \in issued, ~ HasRow(id)
  PROVE  id \in issued' /\ ~ HasRow(id)'
<1>1. ASSUME NEW q \in Request, Takes(q) PROVE id \in issued' /\ ~ HasRow(id)'
  BY <1>1, TakesShape, RowEffects
<1> QED
  BY <1>1, NextSplit, OtherSteps DEF HasRow

LEMMA CountStep ==
  TypeOK /\ ControlInv /\ StoreInv /\ CountInv /\ [Next]_vars => CountInv'
<1> SUFFICES ASSUME TypeOK, ControlInv, StoreInv, CountInv, [Next]_vars, NEW r \in Request,
                    call'[r].op = "create", r \notin dirty', r \notin cancelled'
             PROVE  (/\ pc[r] = "compensate" => errs[r] >= 1
                     /\ pc[r] = "done" /\ code[r] # "OK" /\ created[r] # NoId
                          /\ HasRow(created[r]) => errs[r] >= 2)'
  BY DEF CountInv, Counts
<1>0. /\ call' = call /\ call[r].op = "create" /\ r \notin dirty /\ r \notin cancelled
      /\ pc[r] = "compensate" => errs[r] >= 1
      /\ pc[r] = "done" /\ code[r] # "OK" /\ created[r] # NoId /\ HasRow(created[r])
           => errs[r] >= 2
      /\ errs[r] \in Nat
  BY Memory, Record DEF CountInv, Counts, TypeOK
<1>1. ASSUME pc'[r] = pc[r], code'[r] = code[r], errs'[r] = errs[r]
      PROVE  (/\ pc[r] = "compensate" => errs[r] >= 1
              /\ pc[r] = "done" /\ code[r] # "OK" /\ created[r] # NoId
                   /\ HasRow(created[r]) => errs[r] >= 2)'
  <2> SUFFICES ASSUME pc[r] = "done", code[r] # "OK", created'[r] # NoId, HasRow(created[r])'
               PROVE  errs[r] >= 2
    BY <1>0, <1>1
  <2>1. created'[r] = created[r]
    BY NextSplit, TakesShape, CreatedStays, OtherSteps DEF Writes, InsertsOrg
  <2>2. created[r] \in OrgId /\ created[r] \in issued
    BY <2>1 DEF StoreInv, IssuedInv, TypeOK
  <2>3. HasRow(created[r])
    <3>1. ASSUME ~ HasRow(created[r]) PROVE FALSE
      <4>1. organizations'[created[r]] = NoRow
        BY <2>2, <3>1, NoRebirth DEF HasRow
      <4> QED
        BY <2>1, <4>1 DEF HasRow
    <3> QED
      BY <3>1
  <2> QED
    BY <1>0, <2>1, <2>3
<1>2. ASSUME NEW q \in Request, Takes(q), q # r
      PROVE  pc'[r] = pc[r] /\ code'[r] = code[r] /\ errs'[r] = errs[r]
  BY <1>2, OthersStay
<1>3. ASSUME Handler(r)
      PROVE  (/\ pc[r] = "compensate" => errs[r] >= 1
              /\ pc[r] = "done" /\ code[r] # "OK" /\ created[r] # NoId
                   /\ HasRow(created[r]) => errs[r] >= 2)'
  <2>1. /\ pc[r] \in Step /\ pc[r] \in StepsOf("create")
        /\ Fails(r) \/ IsRefused(r) => errs'[r] = errs[r] + 1
        /\ ~ IsLost(r)
    BY <1>0, <1>3, HandlerShape
    DEF Advances, ControlInv, Established, At, Fails, IsRefused, IsLost, TypeOK
  <2>2. CASE InsertOrg(r)
    <3>1. pc'[r] # "compensate" /\ (pc'[r] = "done" => created'[r] = created[r])
      BY <2>1, <2>2 DEF InsertOrg, Goto, Reply, TypeOK
    <3>2. created[r] = NoId
      BY <2>2 DEF InsertOrg, ControlInv, Established
    <3> QED
      BY <3>1, <3>2
  <2>3. CASE InsertOwner(r) \/ EnsureNs(r)
    <3>1. NsOf(r) \in Legal
      <4>1. OrgOf(r) \in OrgId /\ NsOf(r) = OrgOf(r)
        BY <1>0, <2>3, TargetType
        DEF InsertOwner, EnsureNs, At, Step, Opening, OrgOf, NsOf
      <4> QED
        BY <4>1, SpellingAssumption
    <3>2. /\ pc'[r] # "done"
          /\ pc'[r] = "compensate" => Fails(r) \/ IsRefused(r)
      BY <1>0, <2>1, <2>3, <3>1 DEF InsertOwner, EnsureNs, Breaks, Goto, TypeOK
    <3> QED
      BY <1>0, <2>1, <3>2
  <2>4. CASE Compensate(r)
    <3>1. pc'[r] = "done" /\ created'[r] = created[r] /\ errs[r] >= 1
      BY <1>0, <2>4 DEF Compensate, Reply, TypeOK
    <3>2. CASE Fails(r)
      BY <1>0, <2>1, <3>1, <3>2
    <3>3. CASE DeleteOrganizationRow(OrgOf(r))
      <4>1. OrgOf(r) = created[r] /\ created[r] \in OrgId
        BY <1>0, <2>1, <2>4, TargetType DEF OrgOf, Compensate, At, Opening
      <4>2. ~ HasRow(created[r])'
        BY <3>1, <3>3, <4>1 DEF DeleteOrganizationRow, HasRow, TypeOK, StoresTypeOK
      <4> QED
        BY <3>1, <4>2
    <3> QED
      BY <2>1, <2>4, <3>2, <3>3 DEF Compensate, Breaks
  <2>5. CASE Answer(r)
    BY <2>5 DEF Answer, Reply, TypeOK
  <2> QED
    BY <1>3, <2>1, <2>2, <2>3, <2>4, <2>5
    DEF Handler, ReadBack, CheckAdmin, UpdateRow, CheckOwner, DeleteNs, DeleteRow,
        CheckMember, CreateCR, StepsOf
<1>4. ASSUME Arrives(r)
      PROVE  pc'[r] = pc[r] /\ code'[r] = code[r] /\ errs'[r] = errs[r]
  BY <1>4 DEF Arrives
<1>5. ASSUME OtherStep
      PROVE  (/\ pc[r] = "compensate" => errs[r] >= 1
              /\ pc[r] = "done" /\ code[r] # "OK" /\ created[r] # NoId
                   /\ HasRow(created[r]) => errs[r] >= 2)'
  <2>0. errs' = errs /\ created' = created
    BY <1>5, OtherSteps
  <2>1. ASSUME NEW q \in Request, Begin(q)
        PROVE  (pc'[r] = pc[r] /\ code'[r] = code[r]) \/ q = r
    BY <2>1 DEF Begin, TypeOK
  <2>2. ASSUME Begin(r) PROVE created[r] = NoId /\ pc'[r] # "compensate"
    BY <2>2, Beginning
  <2>3. ASSUME NEW q \in Request, Cancel(q) \/ Crash(q)
        PROVE  (pc'[r] = pc[r] /\ code'[r] = code[r]) \/ pc'[r] = "dead"
    BY <2>3 DEF Cancel, Crash, TypeOK
  <2>4. (\E n \in Spelling : NamespaceController(n)) \/ (\E id \in OrgId : Operators(id))
          \/ (\E u \in User : AccountRemoved(u)) \/ UNCHANGED vars
          => pc'[r] = pc[r] /\ code'[r] = code[r]
    BY DEF NamespaceController, Operators, AccountRemoved, vars
  <2>5. \/ pc'[r] = pc[r] /\ code'[r] = code[r]
        \/ pc'[r] = "dead"
        \/ created[r] = NoId /\ pc'[r] # "compensate"
    BY <1>5, <2>1, <2>2, <2>3, <2>4 DEF OtherStep
  <2> QED
    BY <1>1, <2>0, <2>5
<1> QED
  BY <1>1, <1>2, <1>3, <1>4, <1>5, NextSplit DEF Takes

\* A deletion says OK in the step that takes the row.
LEMMA SaysDeleted ==
  ASSUME TypeOK, ControlInv, [Next]_vars, NEW d \in Request,
         call[d].op = "delete", code[d] # "OK", code'[d] = "OK"
  PROVE  /\ OrgOf(d) \in OrgId /\ HasRow(OrgOf(d))
         /\ DeleteRow(d) /\ DeleteOrganizationRow(OrgOf(d))
         /\ \A e \in Request : e # d => code'[e] = code[e]
<1>1. Handler(d)
  <2>1. ASSUME OtherStep PROVE FALSE
    BY <2>1, OtherSteps, Beginning
  <2>2. ASSUME NEW q \in Request, Arrives(q) PROVE FALSE
    BY <2>2 DEF Arrives
  <2>3. ASSUME NEW q \in Request, Handler(q), q # d PROVE FALSE
    BY <2>3, OthersStay DEF Takes
  <2> QED
    BY <2>1, <2>2, <2>3, NextSplit DEF Takes
<1>3. pc[d] \in Step /\ pc[d] \in StepsOf("delete")
  BY <1>1, HandlerShape DEF Advances, ControlInv, Established, At
<1>4. DeleteRow(d)
  BY <1>1, <1>3
  DEF Handler, InsertOrg, InsertOwner, EnsureNs, Compensate, Answer, ReadBack, CheckAdmin,
      UpdateRow, CheckOwner, DeleteNs, CheckMember, CreateCR, StepsOf, Goto, Reply, TypeOK
<1>5. OrgOf(d) \in OrgId
  BY <1>4, TargetType DEF DeleteRow, At, Step, Opening
<1>6. HasRow(OrgOf(d)) /\ DeleteOrganizationRow(OrgOf(d))
  BY <1>4 DEF DeleteRow, Reply, TypeOK
<1>7. \A e \in Request : e # d => code'[e] = code[e]
  BY <1>1, OthersStay DEF Takes
<1> QED
  BY <1>4, <1>5, <1>6, <1>7

LEMMA DeletedStep ==
  TypeOK /\ ControlInv /\ StoreInv /\ DeletedInv /\ [Next]_vars => DeletedInv'
<1> SUFFICES ASSUME TypeOK, ControlInv, StoreInv, DeletedInv, [Next]_vars, NEW d \in Request,
                    call'[d].op = "delete", code'[d] = "OK"
             PROVE  (OrgOf(d) \in issued /\ ~ HasRow(OrgOf(d)))'
  BY DEF DeletedInv
<1> DEFINE id == OrgOf(d)
<1>0. call' = call /\ call[d].op = "delete" /\ issued \subseteq OrgId /\ OrgOf(d)' = id
  BY Memory DEF TypeOK, StoresTypeOK, OrgOf
<1> SUFFICES id \in issued' /\ organizations'[id] = NoRow
  BY <1>0 DEF HasRow
<1>1. CASE code[d] = "OK"
  BY <1>0, <1>1, NoRebirth DEF DeletedInv, HasRow
<1>2. CASE code[d] # "OK"
  BY <1>0, <1>2, SaysDeleted
  DEF DeleteOrganizationRow, TypeOK, StoresTypeOK, StoreInv, CascadeInv
<1> QED
  BY <1>1, <1>2

LEMMA OneDeleteStep ==
  TypeOK /\ ControlInv /\ DeletedInv /\ AtMostOneDeleteOK /\ [Next]_vars
    => AtMostOneDeleteOK'
<1> SUFFICES ASSUME TypeOK, ControlInv, DeletedInv, AtMostOneDeleteOK, [Next]_vars,
                    NEW d \in Request, NEW e \in Request, d # e,
                    call[d].op = "delete", call[e].op = "delete", OrgOf(d) = OrgOf(e),
                    code'[d] = "OK", code'[e] = "OK"
             PROVE  FALSE
  BY Memory DEF AtMostOneDeleteOK, OrgOf
<1>1. CASE code[d] = "OK" /\ code[e] = "OK"
  BY <1>1 DEF AtMostOneDeleteOK
<1>2. CASE code[d] # "OK"
  BY <1>2, SaysDeleted DEF DeletedInv
<1>3. CASE code[e] # "OK"
  BY <1>3, SaysDeleted DEF DeletedInv
<1> QED
  BY <1>1, <1>2, <1>3

LEMMA LossStep ==
  TypeOK /\ ControlInv /\ StoreInv /\ OwnerInv /\ LossInv /\ [Next]_vars => LossInv'
<1> SUFFICES ASSUME TypeOK, ControlInv, StoreInv, OwnerInv, LossInv, [Next]_vars,
                    NEW r \in Request, Owned(r)', ~ HasRow(created[r])'
             PROVE  \E d \in Request :
                      Deletes(d, created[r])' /\ (code'[d] = "OK" \/ d \in dirty')
  BY DEF LossInv
<1>0. /\ created[r] \in OrgId /\ created'[r] = created[r] /\ call' = call
      /\ call[r].op = "create" /\ (Owned(r) \/ AddsOwner(r))
  BY OwnedFrom
<1>1. Owned(r)
  <2>1. AddsOwner(r) => HasRow(created[r])'
    BY <1>0 DEF AddsOwner, InsertsOwner, MemberRowInsertable, InsertMemberRow, OrgOf, HasRow
  <2> QED
    BY <1>0, <2>1
<1>2. CASE ~ HasRow(created[r])
  <2>1. PICK d \in Request : Deletes(d, created[r]) /\ (code[d] = "OK" \/ d \in dirty)
    BY <1>1, <1>2 DEF LossInv
  <2>2. Deletes(d, created[r])'
    BY <1>0, <2>1 DEF Deletes, OrgOf
  <2> QED
    BY <2>1, <2>2, Record
<1>3. CASE HasRow(created[r])
  <2>1. PICK d \in Request : /\ Takes(d) /\ DeletesRow(d) /\ At(d, "deleteRow")
                             /\ OrgOf(d) = created[r] /\ DeletesWorkOf(d, r)
    BY <1>0, <1>1, <1>3, OwnedRowStays DEF OwnerInv
  <2>2. Deletes(d, created[r])'
    BY <1>0, <2>1 DEF DeletesWorkOf, Deletes, OrgOf
  <2>3. ~ UNCHANGED stores
    BY <1>0, <1>3 DEF stores, HasRow
  <2>4. late[d] # "none" => d \in dirty'
    BY <2>1, Record DEF ControlInv, Established
  <2>5. CASE Handler(d) /\ late[d] = "none"
    <3>1. DeleteRow(d)
      BY <2>1, <2>5
      DEF At, Handler, InsertOrg, InsertOwner, EnsureNs, Compensate, Answer, ReadBack,
          CheckAdmin, UpdateRow, CheckOwner, DeleteNs, CheckMember, CreateCR
    <3>2. code'[d] = "OK"
      BY <1>3, <2>1, <2>3, <3>1 DEF DeleteRow, Breaks, Reply, TypeOK
    <3> QED
      BY <2>2, <3>2
  <2>6. Arrives(d) => late[d] # "none"
    BY ArrivalShape DEF Arrived
  <2> QED
    BY <2>1, <2>2, <2>4, <2>5, <2>6 DEF Takes
<1> QED
  BY <1>2, <1>3

LEMMA AnswerStep ==
  TypeOK /\ ControlInv /\ StoreInv /\ OwnerInv /\ AnswerInv /\ [Next]_vars => AnswerInv'
BY CountStep, DeletedStep, LossStep, OneDeleteStep DEF AnswerInv

-----------------------------------------------------------------------------
(* Namespaces without an organization *)

LEMMA LeakInit == Init => LeakInv
BY DEF Init, StoresInit, LeakInv, OverlapInv, RacesInv, Between, LeaksOnlyByRace, InFlight, Step

LEMMA OverlapStep == TypeOK /\ ControlInv /\ OverlapInv /\ [Next]_vars
                       => OverlapInv' /\ overlap \subseteq overlap'
<1> SUFFICES ASSUME TypeOK, ControlInv, OverlapInv, [Next]_vars
             PROVE  OverlapInv' /\ overlap \subseteq overlap'
  OBVIOUS
<1>1. ASSUME overlap' = overlap, InFlight' \subseteq InFlight
      PROVE  OverlapInv' /\ overlap \subseteq overlap'
  BY <1>1 DEF OverlapInv
<1>2. ASSUME NEW r \in Request, Handler(r)
      PROVE  OverlapInv' /\ overlap \subseteq overlap'
  <2>1. Advances(r) /\ overlap' = overlap
    BY <1>2, HandlerShape DEF Advances, Goto, Reply
  <2>2. InFlight' \subseteq InFlight
    BY <1>2, <2>1, OthersStay DEF Advances, InFlight, Takes
  <2> QED
    BY <1>1, <2>1, <2>2
<1>3. ASSUME NEW r \in Request, Begin(r)
      PROVE  OverlapInv' /\ overlap \subseteq overlap'
  <2>1. CASE Rejection(call[r]) = "none"
    <3>1. /\ overlap' = overlap \cup ({r} \X InFlight) \cup (InFlight \X {r})
          /\ InFlight' \subseteq InFlight \cup {r}
      BY <1>3, <2>1 DEF Begin, InFlight, TypeOK
    <3> QED
      BY <3>1 DEF OverlapInv
  <2>2. CASE Rejection(call[r]) # "none"
    <3>1. overlap' = overlap /\ InFlight' \subseteq InFlight
      BY <1>3, <2>2 DEF Begin, InFlight, TypeOK, Step
    <3> QED
      BY <1>1, <3>1
  <2> QED
    BY <2>1, <2>2
<1>4. ASSUME NEW r \in Request, Cancel(r) \/ Crash(r)
      PROVE  overlap' = overlap /\ InFlight' \subseteq InFlight
  BY <1>4 DEF Cancel, Crash, InFlight, Step, TypeOK
<1>5. ASSUME \/ \E r \in Request : Arrives(r)
             \/ \E n \in Spelling : NamespaceController(n)
             \/ \E id \in OrgId : Operators(id)
             \/ \E u \in User : AccountRemoved(u)
             \/ UNCHANGED vars
      PROVE  overlap' = overlap /\ InFlight' \subseteq InFlight
  BY <1>5 DEF Arrives, NamespaceController, Operators, AccountRemoved, vars, InFlight
<1> QED
  BY <1>1, <1>2, <1>3, <1>4, <1>5, NextSplit DEF OtherStep, Takes

\* Races, lost answers and answered deletions are not undone.
LEMMA RaceStays ==
  ASSUME TypeOK, ControlInv, OverlapInv, [Next]_vars, NEW n \in Spelling, Uuid[n] # NoId
  PROVE  /\ Raced(Uuid[n]) => Raced(Uuid[n])'
         /\ Dirty(Uuid[n]) => Dirty(Uuid[n])'
         /\ Misnamed(n) => Misnamed(n)'
<1> DEFINE id == Uuid[n]
<1>1. overlap \subseteq overlap' /\ (\A r \in Request : call' = call)
  BY OverlapStep, Memory
<1>2. \A r \in Request : OrgOf(r) = id => OrgOf(r)' = id
  BY <1>1, Memory
<1>3. Raced(id) => Raced(id)'
  BY <1>1, <1>2 DEF Raced, Race
<1>4. Dirty(id) => Dirty(id)'
  <2> SUFFICES ASSUME NEW r \in dirty, call[r].op \in {"create", "createBuilder", "delete"},
                      OrgOf(r) = id
               PROVE  r \in dirty' /\ call'[r].op \in {"create", "createBuilder", "delete"}
                      /\ OrgOf(r)' = id
    BY DEF Dirty
  <2>1. r \in Request
    BY DEF TypeOK
  <2> QED
    BY <1>1, <1>2, <2>1, Record
<1>5. Misnamed(n) => Misnamed(n)'
  BY <1>1, <1>2, Record DEF Misnamed, Deletes
<1> QED
  BY <1>3, <1>4, <1>5

\* A write that arrives late lost its answer.
LEMMA LateIsDirty ==
  ASSUME TypeOK, ControlInv, NEW q \in Request, late[q] # "none",
         call[q].op \in {"create", "createBuilder", "delete"}
  PROVE  Dirty(OrgOf(q))
BY DEF ControlInv, Established, Dirty

\* A row that goes while another request is about to ensure the namespace is a race,
\* or was to go earlier.
LEMMA RowGone ==
  ASSUME TypeOK, ControlInv, OverlapInv, NEW r \in Request, NEW q \in Request,
         pc[r] \in Step, call[r].op \in {"create", "createBuilder"},
         Takes(q), Handler(q) => r # q, DeletesRow(q), OrgOf(q) = OrgOf(r)
  PROVE  Raced(OrgOf(r)) \/ Dirty(OrgOf(r))
<1>1. call[q].op \in {"create", "delete"}
  BY CallFields DEF DeletesRow, ControlInv, Established, StepsOf, Op, TypeOK, Step
<1>2. CASE Handler(q)
  <2>1. <<r, q>> \in overlap
    BY <1>2, HandlerShape DEF Advances, OverlapInv, InFlight
  <2> QED
    BY <1>1, <2>1 DEF Raced, Race
<1>3. CASE Arrives(q)
  BY <1>1, <1>3, ArrivalShape, LateIsDirty DEF Arrived
<1> QED
  BY <1>2, <1>3 DEF Takes

\* So is a namespace made while another request is about to take the row.
LEMMA NamespaceMade ==
  ASSUME TypeOK, ControlInv, OverlapInv, NEW r \in Request, NEW q \in Request,
         pc[r] \in Step, call[r].op \in {"create", "delete"},
         Takes(q), Handler(q) => r # q, EnsuresNs(q), OrgOf(q) = OrgOf(r)
  PROVE  Raced(OrgOf(r)) \/ Dirty(OrgOf(r))
<1>1. call[q].op \in {"create", "createBuilder"}
  BY CallFields DEF EnsuresNs, ControlInv, Established, StepsOf, Op, TypeOK, Step
<1>2. CASE Handler(q)
  <2>1. <<q, r>> \in overlap
    BY <1>2, HandlerShape DEF Advances, OverlapInv, InFlight
  <2> QED
    BY <1>1, <2>1 DEF Raced, Race
<1>3. CASE Arrives(q)
  BY <1>1, <1>3, ArrivalShape, LateIsDirty DEF Arrived
<1> QED
  BY <1>2, <1>3 DEF Takes

\* The step of a handler that gets it, or keeps it, between the two stores.
LEMMA Entering ==
  ASSUME TypeOK, ControlInv, [Next]_vars, NEW r \in Request, pc'[r] \in Between
  PROVE  \/ pc'[r] = pc[r] /\ OrgOf(r)' = OrgOf(r)
         \/ pc'[r] = "insertOwner" /\ InsertOrg(r)
         \/ pc'[r] = "ensureNs" /\ InsertOwner(r)
         \/ pc'[r] = "ensureNs" /\ CheckMember(r)
         \/ pc'[r] = "compensate" /\ (InsertOwner(r) \/ EnsureNs(r))
         \/ pc'[r] = "deleteRow" /\ DeleteNs(r)
<1>1. CASE pc'[r] = pc[r]
  <2>1. OrgOf(r) # NoId
    BY <1>1 DEF ControlInv, Established, Step, At, Between, Opening
  <2> QED
    BY <1>1, <2>1, Memory
<1>2. ASSUME pc'[r] # pc[r], Handler(r)
      PROVE  \/ pc'[r] = "insertOwner" /\ InsertOrg(r)
             \/ pc'[r] = "ensureNs" /\ InsertOwner(r)
             \/ pc'[r] = "ensureNs" /\ CheckMember(r)
             \/ pc'[r] = "compensate" /\ (InsertOwner(r) \/ EnsureNs(r))
             \/ pc'[r] = "deleteRow" /\ DeleteNs(r)
  <2>2. CASE InsertOrg(r)
    BY <2>2 DEF InsertOrg, Goto, Reply, TypeOK, Between
  <2>3. CASE InsertOwner(r)
    BY <2>3 DEF InsertOwner, Goto, Reply, TypeOK, Between
  <2>4. CASE EnsureNs(r)
    BY <2>4 DEF EnsureNs, Goto, Reply, TypeOK, Between
  <2>5. CASE CheckMember(r)
    BY <2>5 DEF CheckMember, Goto, Reply, TypeOK, Between
  <2>6. CASE DeleteNs(r)
    BY <2>6 DEF DeleteNs, Goto, Reply, TypeOK, Between
  <2>7. CASE \/ Compensate(r) \/ Answer(r) \/ ReadBack(r) \/ CheckAdmin(r) \/ UpdateRow(r)
             \/ CheckOwner(r) \/ DeleteRow(r) \/ CreateCR(r)
    BY <2>7 DEF Compensate, Answer, ReadBack, CheckAdmin, UpdateRow, CheckOwner, DeleteRow,
                CreateCR, Goto, Reply, TypeOK, Between
  <2> QED
    BY <1>2, <2>2, <2>3, <2>4, <2>5, <2>6, <2>7 DEF Handler
<1>3. ASSUME NEW q \in Request, Handler(q), q # r PROVE pc'[r] = pc[r]
  BY <1>3, OthersStay DEF Takes
<1>4. ASSUME NEW q \in Request, Arrives(q) PROVE pc'[r] = pc[r]
  BY <1>4 DEF Arrives
<1>5. CASE OtherStep
  BY <1>1, <1>5, OtherSteps, Beginning DEF Step, Between
<1> QED
  BY <1>1, <1>2, <1>3, <1>4, <1>5, NextSplit DEF Takes

\* While r stays where it is, a namespace of its organization becomes active, or its
\* row goes, only by a race or late.
LEMMA WhileWaiting ==
  ASSUME TypeOK, ControlInv, OverlapInv, [Next]_vars, NEW r \in Request,
         pc[r] \in Between, pc'[r] = pc[r], NEW n \in Spelling, Uuid[n] = OrgOf(r)
  PROVE  /\ call[r].op \in {"create", "createBuilder"} /\ HasRow(OrgOf(r))
              /\ organizations'[OrgOf(r)] = NoRow => Raced(OrgOf(r)) \/ Dirty(OrgOf(r))
         /\ call[r].op \in {"create", "delete"} /\ namespaces[n] # "active"
              /\ namespaces'[n] = "active" => Raced(OrgOf(r)) \/ Dirty(OrgOf(r))
<1>0. OrgOf(r) \in OrgId /\ pc[r] \in Step
  BY TargetType DEF At, Between, Step, Opening
<1>1. ~ Handler(r)
  BY DEF Handler, InsertOrg, InsertOwner, EnsureNs, Compensate, Answer, ReadBack, CheckAdmin,
         UpdateRow, CheckOwner, DeleteNs, DeleteRow, CheckMember, CreateCR, Goto, Reply,
         TypeOK, Between
<1>2. ASSUME NEW q \in Request, Takes(q)
      PROVE  /\ call[r].op \in {"create", "createBuilder"} /\ HasRow(OrgOf(r))
                  /\ organizations'[OrgOf(r)] = NoRow => Raced(OrgOf(r)) \/ Dirty(OrgOf(r))
             /\ call[r].op \in {"create", "delete"} /\ namespaces[n] # "active"
                  /\ namespaces'[n] = "active" => Raced(OrgOf(r)) \/ Dirty(OrgOf(r))
  <2>1. Writes(q)
    BY <1>2, TakesShape
  <2>2. HasRow(OrgOf(r)) /\ organizations'[OrgOf(r)] = NoRow
          => DeletesRow(q) /\ OrgOf(q) = OrgOf(r)
    BY <1>0, <2>1, RowEffects DEF HasRow
  <2>3. namespaces[n] # "active" /\ namespaces'[n] = "active"
          => EnsuresNs(q) /\ OrgOf(q) = OrgOf(r)
    BY <2>1, NamespaceEffects
  <2> QED
    BY <1>0, <1>1, <1>2, <2>2, <2>3, RowGone, NamespaceMade
<1>3. CASE OtherStep
  BY <1>0, <1>3, OtherSteps, OtherNamespaces DEF HasRow
<1> QED
  BY <1>2, <1>3, NextSplit

LEMMA RacesStep ==
  TypeOK /\ ControlInv /\ StoreInv /\ OverlapInv /\ RacesInv /\ [Next]_vars => RacesInv'
<1> SUFFICES ASSUME TypeOK, ControlInv, StoreInv, OverlapInv, RacesInv, [Next]_vars,
                    NEW r \in Request, pc'[r] \in Between,
                    NEW n \in Spelling, Uuid[n] = OrgOf(r)'
             PROVE  RacesAt(r, n)'
  BY DEF RacesInv
<1> DEFINE id == Uuid[n]
<1>0. /\ call' = call /\ call[r].op \in Op
      /\ pc[r] \in Step => pc[r] \in StepsOf(call[r].op)
      /\ pc[r] \in Step \ Opening => OrgOf(r) \in OrgId /\ OrgOf(r)' = OrgOf(r)
  BY Memory, CallFields, OrgType DEF ControlInv, Established, TypeOK, At
<1>r. id # NoId => (Raced(id) => Raced(id)') /\ (Dirty(id) => Dirty(id)')
  BY RaceStays
<1>2. CASE pc'[r] = pc[r] /\ OrgOf(r)' = OrgOf(r)
  <2>1. OrgOf(r) = id /\ pc[r] \in Between /\ RacesAt(r, n) /\ id # NoId
    BY <1>2, SpellingAssumption, <1>0 DEF RacesInv, Between, Step, Opening
  <2>2. /\ pc[r] = "deleteRow" => call[r].op = "delete"
        /\ pc[r] = "ensureNs" => call[r].op \in {"create", "createBuilder"}
    BY <1>0, <2>1 DEF StepsOf, Op, Between, Step
  <2>3. /\ call[r].op \in {"create", "createBuilder"} /\ HasRow(id)
             /\ organizations'[id] = NoRow => Raced(id) \/ Dirty(id)
        /\ call[r].op \in {"create", "delete"} /\ namespaces[n] # "active"
             /\ namespaces'[n] = "active" => Raced(id) \/ Dirty(id)
    BY <1>2, <2>1, WhileWaiting
  <2>4. CASE Raced(id) \/ Dirty(id)
    BY <1>2, <1>r, <2>1, <2>4 DEF RacesAt
  <2>5. CASE ~ (Raced(id) \/ Dirty(id))
    <3>1. pc'[r] = "ensureNs" => HasRow(OrgOf(r))'
      BY <1>2, <2>1, <2>2, <2>3, <2>5 DEF RacesAt, HasRow
    <3>2. call'[r].op = "create" /\ namespaces'[n] = "active" =>
            pc'[r] \notin {"insertOwner", "ensureNs", "compensate"}
      BY <1>0, <1>2, <2>1, <2>3, <2>5 DEF RacesAt
    <3>3. pc'[r] = "deleteRow" /\ call'[r].id = n => namespaces'[n] # "active"
      BY <1>0, <1>2, <2>1, <2>2, <2>3, <2>5 DEF RacesAt
    <3> QED
      BY <1>2, <3>1, <3>2, <3>3 DEF RacesAt, HasRow
  <2> QED
    BY <2>4, <2>5
<1>3. CASE pc'[r] = "insertOwner" /\ InsertOrg(r)
  <2>1. id \notin issued /\ UNCHANGED namespaces
    BY <1>0, <1>3 DEF InsertOrg, Inserts, InsertOrganizationRow, Breaks, Goto, Reply, OrgOf,
                      TypeOK, Step, StepsOf, Op
  <2>2. namespaces'[n] = "absent"
    BY <2>1 DEF StoreInv, CascadeInv
  <2> QED
    BY <1>3, <2>2 DEF RacesAt
<1>4. CASE pc'[r] = "ensureNs" /\ InsertOwner(r)
  <2>1. pc[r] = "insertOwner" /\ OrgOf(r) = id /\ id # NoId
    BY <1>0, <1>4, SpellingAssumption DEF InsertOwner, Step, Opening
  <2>2. HasRow(id) /\ UNCHANGED <<organizations, namespaces>>
    BY <1>4, <2>1 DEF InsertOwner, InsertsOwner, MemberRowInsertable, InsertMemberRow, Goto,
                      TypeOK
  <2>3. RacesAt(r, n)
    BY <2>1 DEF RacesInv, Between
  <2>4. CASE Raced(id) \/ Dirty(id)
    BY <1>0, <1>r, <2>1, <2>4 DEF RacesAt, Step, Opening
  <2>5. CASE ~ (Raced(id) \/ Dirty(id))
    BY <1>0, <1>4, <2>1, <2>2, <2>3, <2>5 DEF RacesAt, HasRow
  <2> QED
    BY <2>4, <2>5
<1>5. CASE pc'[r] = "ensureNs" /\ CheckMember(r)
  <2>1. /\ pc[r] = "checkMember" /\ LooksUp(r) /\ RoleOf(OrgOf(r), call[r].user) # "none"
        /\ UNCHANGED stores /\ call[r].op # "create"
    BY <1>0, <1>5 DEF CheckMember, Reply, TypeOK, Step, StepsOf, Op
  <2>2. OrgOf(r) = id /\ id \in OrgId
    BY <2>1, Memory, OrgType DEF LooksUp
  <2>3. HasRow(id) /\ UNCHANGED organizations
    BY <2>1, <2>2 DEF RoleOf, StoreInv, CascadeInv, stores
  <2> QED
    BY <1>0, <1>5, <2>1, <2>2, <2>3 DEF RacesAt, HasRow
<1>6. CASE pc'[r] = "compensate" /\ (InsertOwner(r) \/ EnsureNs(r))
  <2>1. pc[r] \in {"insertOwner", "ensureNs"} /\ OrgOf(r) = id /\ id # NoId
    BY <1>0, <1>6, SpellingAssumption DEF InsertOwner, EnsureNs, Step, Opening
  <2>2. call[r].op = "create"
    BY <1>0, <1>6 DEF InsertOwner, EnsureNs, Step, StepsOf, Op, Goto, Reply, TypeOK
  <2>3. UNCHANGED namespaces
    BY <1>6, <2>2 DEF InsertOwner, EnsureNs, Breaks, stores, Goto, TypeOK
  <2>4. RacesAt(r, n)
    BY <2>1 DEF RacesInv, Between
  <2>5. CASE Raced(id) \/ Dirty(id)
    BY <1>0, <1>r, <2>1, <2>5 DEF RacesAt, Step, Opening
  <2>6. CASE ~ (Raced(id) \/ Dirty(id))
    BY <1>0, <1>6, <2>1, <2>2, <2>3, <2>4, <2>6 DEF RacesAt
  <2> QED
    BY <2>5, <2>6
<1>7. CASE pc'[r] = "deleteRow" /\ DeleteNs(r)
  <2>1. call[r].op = "delete" /\ NsOf(r) = call[r].id
    BY <1>0, <1>7 DEF DeleteNs, NsOf, Step, StepsOf, Op
  <2>2. DeleteOrgNamespace(NsOf(r))
    BY <1>7 DEF DeleteNs, Goto, Reply, TypeOK
  <2>3. call[r].id = n => namespaces'[n] # "active"
    BY <2>1, <2>2 DEF DeleteOrgNamespace, TypeOK, StoresTypeOK
  <2> QED
    BY <1>0, <1>7, <2>1, <2>3 DEF RacesAt
<1> QED
  BY <1>2, <1>3, <1>4, <1>5, <1>6, <1>7, Entering

LEMMA LeaksStep ==
  TypeOK /\ ControlInv /\ StoreInv /\ LeakInv /\ [Next]_vars => LeaksOnlyByRace'
<1> SUFFICES ASSUME TypeOK, ControlInv, StoreInv, LeakInv, [Next]_vars, NEW n \in Spelling,
                    namespaces'[n] = "active"
             PROVE  Uuid[n] # NoId /\ (HasRow(Uuid[n]) \/ Raced(Uuid[n]) \/ Dirty(Uuid[n])
                                         \/ Misnamed(n))'
  BY DEF LeaksOnlyByRace
<1> DEFINE id == Uuid[n]
<1>0. id # NoId
  BY NextSplit, TakesShape, NamespaceEffects, WritesWhere, OtherNamespaces, SpellingAssumption
  DEF LeakInv, LeaksOnlyByRace
<1> SUFFICES ASSUME ~ HasRow(id)', ~ Raced(id), ~ Dirty(id), ~ Misnamed(n)
             PROVE  Misnamed(n)'
  BY <1>0, RaceStays DEF LeakInv
<1>1. id \in OrgId
  BY <1>0, SpellingAssumption
<1>2. ASSUME NEW q \in Request, Takes(q) PROVE Misnamed(n)'
  <2>1. Writes(q)
    BY <1>2, TakesShape
  <2>2. CASE namespaces[n] # "active"
    <3>1. EnsuresNs(q) /\ OrgOf(q) = id
      BY <2>1, <2>2, NamespaceEffects
    <3>2. call[q].op \in {"create", "createBuilder"}
      BY <3>1, CallFields DEF EnsuresNs, ControlInv, Established, StepsOf, Op, TypeOK, Step
    <3>3. pc[q] = "ensureNs"
      BY <3>1, <3>2, LateIsDirty DEF EnsuresNs, At
    <3>4. HasRow(id)
      BY <3>1, <3>3 DEF LeakInv, RacesInv, RacesAt, Between
    <3> QED
      BY <3>1, <3>4 DEF EnsuresNs, EnsureOrgNamespace, HasRow
  <2>3. CASE namespaces[n] = "active"
    <3>1. HasRow(id)
      BY <2>3 DEF LeakInv, LeaksOnlyByRace
    <3>2. DeletesRow(q) /\ OrgOf(q) = id
      BY <1>1, <2>1, <3>1, RowEffects
    <3>3. call[q].op \in {"create", "delete"}
      BY <3>2, CallFields DEF DeletesRow, ControlInv, Established, StepsOf, Op, TypeOK, Step
    <3>4. late[q] = "none"
      BY <3>2, <3>3, LateIsDirty
    <3>5. pc[q] = "deleteRow" /\ call[q].id # n
      <4>1. pc[q] \in {"compensate", "deleteRow"} /\ RacesAt(q, n)
        BY <3>2, <3>4 DEF DeletesRow, At, LeakInv, RacesInv, Between
      <4>2. pc[q] = "compensate" => call[q].op = "create"
        BY CallFields DEF ControlInv, Established, StepsOf, Op, TypeOK, Step, At
      <4> QED
        BY <2>3, <3>2, <4>1, <4>2 DEF RacesAt
    <3>6. DeleteRow(q)
      BY <1>2, <3>4, <3>5
      DEF Takes, Arrives, Write, Handler, InsertOrg, InsertOwner, EnsureNs, Compensate, Answer,
          ReadBack, CheckAdmin, UpdateRow, CheckOwner, DeleteNs, CheckMember, CreateCR
    <3>7. ~ UNCHANGED stores
      BY <3>1 DEF stores, HasRow
    <3>8. code'[q] = "OK" /\ UNCHANGED <<call, created>>
      BY <3>1, <3>2, <3>6, <3>7 DEF DeleteRow, Breaks, Reply, TypeOK
    <3>9. call[q].op = "delete"
      BY <3>5, CallFields DEF ControlInv, Established, StepsOf, Op, TypeOK, Step, At
    <3> QED
      BY <3>2, <3>5, <3>8, <3>9 DEF Misnamed, Deletes, OrgOf
  <2> QED
    BY <2>2, <2>3
<1>3. CASE OtherStep
  <2>1. namespaces[n] = "active" /\ ~ HasRow(id)
    BY <1>3, OtherSteps, OtherNamespaces DEF HasRow
  <2> QED
    BY <2>1 DEF LeakInv, LeaksOnlyByRace
<1> QED
  BY <1>2, <1>3, NextSplit

LEMMA LeakStep == TypeOK /\ ControlInv /\ StoreInv /\ LeakInv /\ [Next]_vars => LeakInv'
BY OverlapStep, RacesStep, LeaksStep DEF LeakInv

-----------------------------------------------------------------------------
(* The inductive invariant and what it implies *)

\* The inductive invariant: what a handler has established about its organization
\* between any two of its calls, whatever the other handlers have done since, writes
\* arrived late and accounts gone (service.go:149-171, 280-305).
THEOREM Inductive == Spec => []IInv
<1>1. Init => IInv
  BY TypeInit, ControlInit, StoreInit, OwnerInit, AnswerInit, LeakInit DEF IInv
<1>2. IInv /\ [Next]_vars => IInv'
  BY TypeStep, ControlStep, StoreStep, OwnerStep, AnswerStep, LeakStep DEF IInv
<1> QED
  BY <1>1, <1>2, PTL DEF Spec

\* A CreateOrganization that fails, with at most one failing call, leaves no row.
THEOREM CreationIsAllOrNothing == Spec => []CreateAllOrNothing
<1>1. IInv => CreateAllOrNothing
  BY DEF IInv, AnswerInv, CountInv, Counts, CreateAllOrNothing, TypeOK
<1> QED
  BY <1>1, Inductive, PTL

\* Only races, lost answers and other spellings of an id leave a namespace without an
\* organization.
THEOREM LeaksAreRaces == Spec => []LeaksOnlyByRace
<1>1. IInv => LeaksOnlyByRace
  BY DEF IInv, LeakInv
<1> QED
  BY <1>1, Inductive, PTL

\* A confirmed organization is gone only through a deletion.
THEOREM LossIsNeverSilent == Spec => []NoSilentLoss
<1>1. IInv => NoSilentLoss
  BY DEF IInv, AnswerInv, LossInv, NoSilentLoss, Acked, Owned
<1> QED
  BY <1>1, Inductive, PTL

\* Of several deletions of one organization one at most is answered OK.
THEOREM OneDeletionSucceeds == Spec => []AtMostOneDeleteOK
<1>1. IInv => AtMostOneDeleteOK
  BY DEF IInv, AnswerInv
<1> QED
  BY <1>1, Inductive, PTL

-----------------------------------------------------------------------------
(* After a deletion *)

\* Nobody starts to ensure the namespace of an organization without a row: the
\* membership was inserted, or found, a moment before.
LEMMA NewlyEnsuring ==
  ASSUME TypeOK, ControlInv, StoreInv, [Next]_vars, NEW r \in Request,
         ~ At(r, "ensureNs"), At(r, "ensureNs")'
  PROVE  HasRow(OrgOf(r)')
<1>1. pc'[r] = "ensureNs" /\ pc[r] # "ensureNs"
  BY AtFrom DEF Step
<1>2. CASE InsertOwner(r)
  <2>1. OrgOf(r)' = OrgOf(r)
    BY <1>2 DEF InsertOwner, Goto, Reply, OrgOf
  <2> QED
    BY <1>1, <1>2, <2>1 DEF InsertOwner, InsertsOwner, MemberRowInsertable, Goto, TypeOK
<1>3. CASE CheckMember(r)
  <2>1. /\ OrgOf(r)' = OrgOf(r) /\ RoleOf(OrgOf(r), call[r].user) # "none" /\ LooksUp(r)
    BY <1>1, <1>3 DEF CheckMember, Goto, Reply, OrgOf, TypeOK
  <2>2. OrgOf(r) \in OrgId
    BY <2>1, OrgType DEF LooksUp
  <2> QED
    BY <2>1, <2>2 DEF RoleOf, StoreInv, CascadeInv
<1> QED
  BY <1>1, <1>2, <1>3, Entering DEF Between

\* A namespace out of reach stays out of reach.
LEMMA GoneStays ==
  ASSUME TypeOK, ControlInv, StoreInv, [Next]_vars, NEW n \in Spelling, Gone(n)
  PROVE  Gone(n)'
<1>0. Uuid[n] \in OrgId
  BY DEF Gone, TypeOK, StoresTypeOK
<1>1. Uuid[n] \in issued' /\ ~ HasRow(Uuid[n])'
  BY <1>0, NoRebirth DEF Gone
<1>2. namespaces'[n] # "active"
  <2>1. ASSUME NEW q \in Request, Takes(q) PROVE namespaces'[n] # "active"
    BY <2>1, TakesShape, NamespaceEffects DEF EnsuresNs, Gone
  <2>2. CASE OtherStep
    BY <2>2, OtherNamespaces DEF Gone
  <2> QED
    BY <2>1, <2>2, NextSplit
<1>3. ASSUME NEW r \in Request, At(r, "ensureNs")', OrgOf(r)' = Uuid[n]
      PROVE  FALSE
  <2>1. CASE At(r, "ensureNs")
    <3>1. OrgOf(r)' = OrgOf(r)
      BY <2>1, TargetType, Memory, SpellingAssumption DEF Step, Opening
    <3> QED
      BY <1>3, <2>1, <3>1 DEF Gone
  <2>2. CASE ~ At(r, "ensureNs")
    <3>1. HasRow(OrgOf(r)')
      BY <1>3, <2>2, NewlyEnsuring
    <3> QED
      BY <1>3, <3>1 DEF Gone
  <2> QED
    BY <2>1, <2>2
<1> QED
  BY <1>1, <1>2, <1>3 DEF Gone

\* A deletion that raced with nobody leaves the namespace it named out of reach.
LEMMA DeletionReaches ==
  ASSUME TypeOK, ControlInv, StoreInv, OverlapInv, RacesInv, [Next]_vars,
         NEW d \in Request, NEW n \in Spelling,
         Deletes(d, Uuid[n]), call[d].id = n, code[d] # "OK", code'[d] = "OK",
         ~ Raced(Uuid[n]), ~ Dirty(Uuid[n])
  PROVE  Gone(n)'
<1> DEFINE id == Uuid[n]
<1>1. /\ id \in OrgId /\ HasRow(id) /\ DeleteRow(d) /\ DeleteOrganizationRow(id)
      /\ pc[d] = "deleteRow" /\ OrgOf(d) = id
  BY SaysDeleted DEF Deletes, DeleteRow
<1>2. id \in issued' /\ ~ HasRow(id)'
  BY <1>1 DEF DeleteOrganizationRow, HasRow, StoreInv, CascadeInv, TypeOK, StoresTypeOK
<1>3. namespaces'[n] # "active"
  BY <1>1 DEF RacesInv, RacesAt, Between, DeleteOrganizationRow
<1>4. /\ pc' = [pc EXCEPT ![d] = "done"] /\ UNCHANGED <<call, created, late>>
  BY <1>1 DEF DeleteRow, Returns, Reply, TypeOK
<1>5. ASSUME NEW r \in Request, At(r, "ensureNs")', OrgOf(r)' = id
      PROVE  FALSE
  <2>1. OrgOf(r) = id /\ At(r, "ensureNs")
    BY <1>4, <1>5 DEF OrgOf, At, TypeOK
  <2>2. call[r].op \in {"create", "createBuilder"}
    BY <2>1, CallFields DEF ControlInv, Established, StepsOf, Op, Step, TypeOK
  <2>3. late[r] = "none"
    BY <2>1, <2>2, LateIsDirty
  <2>4. pc[r] = "ensureNs" /\ r # d
    BY <1>1, <2>1, <2>3 DEF At
  <2>5. <<r, d>> \in overlap
    BY <1>1, <2>4 DEF OverlapInv, InFlight, Step
  <2> QED
    BY <1>1, <2>1, <2>2, <2>5 DEF Raced, Race, Deletes
<1> QED
  BY <1>2, <1>3, <1>5 DEF Gone

LEMMA GoneStep ==
  IInv /\ GoneInv /\ [Next]_vars => GoneInv'
<1> SUFFICES ASSUME IInv, GoneInv, [Next]_vars, NEW d \in Request, NEW n \in Spelling,
                    DeletedAs(d, n)'
             PROVE  Gone(n)'
  BY DEF GoneInv
<1>0. TypeOK /\ ControlInv /\ StoreInv /\ OverlapInv /\ RacesInv /\ DeletedInv
  BY DEF IInv, LeakInv, AnswerInv
<1>1. /\ Deletes(d, Uuid[n])' /\ call'[d].id = n /\ code'[d] = "OK"
      /\ ~ Raced(Uuid[n])' /\ ~ Dirty(Uuid[n])'
  BY DEF DeletedAs
<1>2. Deletes(d, Uuid[n]) /\ call[d].id = n
  BY <1>0, <1>1, Memory DEF Deletes, OrgOf
<1>3. Uuid[n] \in OrgId /\ Uuid[n] # NoId
  <2>1. OrgOf(d) \in OrgId
    BY <1>0, <1>1, <1>2, SaysDeleted DEF DeletedInv, Deletes, TypeOK, StoresTypeOK
  <2> QED
    BY <1>2, <2>1, SpellingAssumption DEF Deletes
<1>4. ~ Raced(Uuid[n]) /\ ~ Dirty(Uuid[n])
  BY <1>0, <1>1, <1>3, RaceStays
<1>5. CASE code[d] = "OK"
  BY <1>0, <1>2, <1>4, <1>5, GoneStays DEF GoneInv, DeletedAs
<1>6. CASE code[d] # "OK"
  BY <1>0, <1>1, <1>2, <1>4, <1>6, DeletionReaches
<1> QED
  BY <1>5, <1>6

\* A namespace that was deleted by its name, with its organization and without a race
\* or a lost answer, is not active, has no organization, and nobody is about to make
\* it or will by a write that is late (service.go:280-305, handlers.go:100-110).
THEOREM DeletedIsGone == Spec => []GoneInv
<1>1. Init => GoneInv
  BY DEF Init, GoneInv, DeletedAs
<1> QED
  BY <1>1, GoneStep, Inductive, PTL DEF Spec

\* Once out of reach, a namespace is out of reach in every later state, so that one
\* deleted by its name and without a race is never active again, under whatever
\* spelling of the id other requests ask for it.
THEOREM DeletionEndsIt == Spec => DeletionIsFinal
<1> SUFFICES ASSUME NEW d \in Request, NEW n \in Spelling
             PROVE  Spec => [](DeletedAs(d, n) => [](namespaces[n] # "active"))
  BY DEF DeletionIsFinal
<1> DEFINE P == DeletedAs(d, n)
           G == Gone(n)
           Q == namespaces[n] # "active"
<1>1. GoneInv => (P => G)
  BY DEF GoneInv
<1>2. IInv /\ G /\ [Next]_vars => G'
  BY GoneStays DEF IInv
<1>3. G => Q
  BY DEF Gone
<1> HIDE DEF P, G, Q
<1>4. Spec => [](P => []Q)
  BY <1>1, <1>2, <1>3, Inductive, DeletedIsGone, PTL DEF Spec
<1> QED
  BY <1>4 DEF P, Q
=============================================================================
