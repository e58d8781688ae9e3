----------------------------- MODULE LedgerProofs -----------------------------
(***************************************************************************)
(* The handlers of module Organizations implement OrgLedger: each of their *)
(* steps, late ones too, is one operation of the ledger or none.           *)
(***************************************************************************)
EXTENDS OrganizationsProofs

\* The state of the ledger, as in KeepsLedger.
HoldsOf(id) == IF HasRow(id) THEN organizations[id].slug ELSE NoSlug

WantedIds == {id \in OrgId : \E d \in Request :
                /\ Deletes(d, id)
                /\ pc[d] \in {"deleteNs", "deleteRow"} \/ late[d] = "deleteRow"
                /\ RoleOf(id, call[d].user) = "owner" \/ call[d].user \notin users}

LifeMap == [id \in OrgId |-> LifeOf(id)]
HoldsMap == [id \in OrgId |-> HoldsOf(id)]

Confirmed(id) == \E r \in Request : Acked(r) /\ created[r] = id

-----------------------------------------------------------------------------
(* Confirmations *)

\* What was confirmed stays confirmed.
LEMMA AckedStays ==
  ASSUME TypeOK, ControlInv, [Next]_vars, NEW r \in Request, Acked(r)
  PROVE  Acked(r)' /\ created'[r] = created[r]
BY Memory, Record DEF Acked, ControlInv, Established

\* The only step that confirms is the answer of CreateOrganization.
LEMMA Confirming ==
  ASSUME TypeOK, ControlInv, [Next]_vars, NEW r \in Request, ~ Acked(r), Acked(r)'
  PROVE  Answer(r) /\ created[r] \in OrgId /\ created' = created
<1>1. call' = call /\ call[r].op = "create" /\ code[r] # "OK" /\ code'[r] = "OK"
  BY Memory DEF Acked
<1>2. Handler(r)
  <2>1. CASE OtherStep
    BY <1>1, <2>1, OtherSteps, Beginning
  <2>2. ASSUME NEW q \in Request, Takes(q) PROVE Handler(r)
    <3>1. q = r
      BY <1>1, <2>2, OthersStay
    <3> QED
      BY <1>1, <2>2, <3>1 DEF Takes, Arrives
  <2> QED
    BY <2>1, <2>2, NextSplit
<1>3. pc[r] \in Step /\ pc[r] \in StepsOf("create")
  BY <1>1, <1>2, HandlerShape DEF Advances, ControlInv, Established, At
<1>4. Answer(r)
  BY <1>1, <1>2, <1>3
  DEF Handler, InsertOrg, InsertOwner, EnsureNs, Compensate, ReadBack, CheckAdmin,
      UpdateRow, CheckOwner, DeleteNs, DeleteRow, CheckMember, CreateCR, StepsOf,
      Goto, Reply, TypeOK
<1>5. created[r] # NoId /\ created' = created
  BY <1>1, <1>4 DEF Answer, ControlInv, Established, At, Opening, Step, OrgOf
<1> QED
  BY <1>4, <1>5 DEF TypeOK

\* In any other step the same organizations are confirmed.
LEMMA SameConfirmed ==
  ASSUME TypeOK, ControlInv, [Next]_vars, NEW id \in OrgId,
         \A r \in Request : Acked(r)' => Acked(r) \/ created[r] # id
  PROVE  Confirmed(id)' <=> Confirmed(id)
<1>1. Confirmed(id) => Confirmed(id)'
  BY AckedStays DEF Confirmed
<1>2. ASSUME NEW r \in Request, Acked(r)', created'[r] = id PROVE Confirmed(id)
  <2>1. CASE Acked(r)
    BY <1>2, <2>1, AckedStays DEF Confirmed
  <2>2. CASE ~ Acked(r)
    BY <1>2, <2>2, Confirming
  <2> QED
    BY <2>1, <2>2
<1> QED
  BY <1>1, <1>2 DEF Confirmed

-----------------------------------------------------------------------------
(* The operations of the ledger, one id at a time *)

\* The ledger says of id what it said before.
SameEntry(id) == LifeOf(id)' = LifeOf(id) /\ HoldsOf(id)' = HoldsOf(id)

SlugFree(slug, id) == \A other \in OrgId \ {id} : HoldsOf(other) # slug

\* What may happen to the entry of id.
Reserves(id, slug) ==
  /\ LifeOf(id) = "unborn" /\ LifeOf(id)' = "pending"
  /\ HoldsOf(id)' = slug /\ SlugFree(slug, id)

Confirms(id) ==
  LifeOf(id) = "pending" /\ LifeOf(id)' = "open" /\ HoldsOf(id)' = HoldsOf(id)

Closes(id) ==
  /\ LifeOf(id) = "pending" \/ (LifeOf(id) = "open" /\ id \in WantedIds)
  /\ LifeOf(id)' = "closed" /\ HoldsOf(id)' = NoSlug

Renames(id, slug) ==
  /\ LifeOf(id) \in {"pending", "open"} /\ LifeOf(id)' = LifeOf(id)
  /\ HoldsOf(id)' = slug /\ SlugFree(slug, id)

LEMMA NoEntry ==
  ASSUME \A id \in OrgId : SameEntry(id)
  PROVE  Ledger!LedgerNext
<1>1. WantedIds' \in SUBSET OrgId
  BY DEF WantedIds
<1>2. LifeMap' = LifeMap /\ HoldsMap' = HoldsMap
  BY DEF SameEntry, LifeMap, HoldsMap
<1> QED
  BY <1>1, <1>2 DEF Ledger!LedgerNext, LifeMap, HoldsMap, HoldsOf, WantedIds

LEMMA OneEntry ==
  ASSUME NEW id \in OrgId, \A other \in OrgId \ {id} : SameEntry(other),
         \/ Confirms(id) \/ Closes(id)
         \/ \E slug \in Slug : Reserves(id, slug) \/ Renames(id, slug)
  PROVE  Ledger!LedgerNext
<1>0. WantedIds' \in SUBSET OrgId
  BY DEF WantedIds
<1>1. /\ LifeMap' = [LifeMap EXCEPT ![id] = LifeOf(id)']
      /\ HoldsMap' = [HoldsMap EXCEPT ![id] = HoldsOf(id)']
  BY DEF SameEntry, LifeMap, HoldsMap
<1>2. /\ LifeMap[id] = LifeOf(id) /\ HoldsMap[id] = HoldsOf(id)
      /\ \A other \in OrgId : HoldsMap[other] = HoldsOf(other)
  BY DEF LifeMap, HoldsMap
<1>3. ASSUME NEW slug \in Slug, Reserves(id, slug) PROVE Ledger!LedgerNext
  <2>1. Ledger!Reserve(id, slug)
    BY <1>1, <1>2, <1>3 DEF Ledger!Reserve, Ledger!Free, Reserves, SlugFree, LifeMap, HoldsMap, HoldsOf
  <2> QED
    BY <1>0, <2>1 DEF Ledger!LedgerNext, WantedIds
<1>4. ASSUME NEW slug \in Slug, Renames(id, slug) PROVE Ledger!LedgerNext
  <2>1. Ledger!Rename(id, slug)
    BY <1>1, <1>2, <1>4 DEF Ledger!Rename, Ledger!Free, Renames, SlugFree, LifeMap, HoldsMap, HoldsOf
  <2> QED
    BY <1>0, <2>1 DEF Ledger!LedgerNext, WantedIds
<1>5. CASE Confirms(id)
  <2>1. Ledger!Confirm(id)
    BY <1>1, <1>2, <1>5 DEF Ledger!Confirm, Confirms, LifeMap, HoldsMap, HoldsOf
  <2> QED
    BY <1>0, <2>1 DEF Ledger!LedgerNext, WantedIds
<1>6. CASE Closes(id)
  <2>1. Ledger!Close(id)
    BY <1>1, <1>2, <1>6 DEF Ledger!Close, Closes, LifeMap, HoldsMap, HoldsOf, WantedIds
  <2> QED
    BY <1>0, <2>1 DEF Ledger!LedgerNext, WantedIds
<1> QED
  BY <1>3, <1>4, <1>5, <1>6

-----------------------------------------------------------------------------
(* The steps of Organizations *)

LEMMA EntryStays ==
  ASSUME TypeOK, ControlInv, [Next]_vars, NEW id \in OrgId,
         id \in issued' <=> id \in issued, organizations'[id] = organizations[id],
         \A r \in Request : Acked(r)' => Acked(r) \/ created[r] # id
  PROVE  SameEntry(id)
<1>1. Confirmed(id)' <=> Confirmed(id)
  BY SameConfirmed
<1> QED
  BY <1>1 DEF SameEntry, LifeOf, HoldsOf, HasRow, Confirmed

\* A confirmation is Confirm, or nothing where the row is gone already.
LEMMA ConfirmStep ==
  ASSUME IInv, [Next]_vars, NEW r \in Request, ~ Acked(r), Acked(r)'
  PROVE  Ledger!LedgerNext
<1>0. TypeOK /\ ControlInv /\ IssuedInv /\ OnceInv
  BY DEF IInv, StoreInv
<1>1. /\ Answer(r) /\ created[r] \in OrgId /\ created' = created
      /\ UNCHANGED <<organizations, issued>>
  BY <1>0, Confirming DEF Answer, stores
<1>2. PICK id \in OrgId : id = created[r]
  BY <1>1
<1>3. id \in issued /\ id # NoId
  BY <1>0, <1>2, SpellingAssumption DEF IssuedInv
<1>4. ASSUME NEW s \in Request, Acked(s)', ~ Acked(s) PROVE s = r
  <2>1. Answer(s)
    BY <1>0, <1>4, Confirming
  <2> QED
    BY <1>0, <1>1, <2>1 DEF Answer, Reply, TypeOK
<1>5. ASSUME NEW other \in OrgId, other # id PROVE SameEntry(other)
  BY <1>0, <1>1, <1>2, <1>4, <1>5, EntryStays
<1>6. CASE HasRow(id)
  <2>1. ~ Confirmed(id)
    BY <1>0, <1>2, <1>3 DEF Confirmed, OnceInv
  <2>2. Confirmed(id)'
    BY <1>1, <1>2 DEF Confirmed
  <2>3. Confirms(id)
    BY <1>1, <1>3, <1>6, <2>1, <2>2 DEF Confirms, LifeOf, HoldsOf, HasRow, Confirmed
  <2> QED
    BY <1>5, <2>3, OneEntry
<1>7. CASE ~ HasRow(id)
  <2>1. SameEntry(id)
    BY <1>1, <1>3, <1>7 DEF SameEntry, LifeOf, HoldsOf, HasRow
  <2> QED
    BY <1>5, <2>1, NoEntry
<1> QED
  BY <1>6, <1>7

\* Whose row goes although it was confirmed: a deletion goes on, of its owner or of
\* somebody whose account is gone.
LEMMA ClosedByOwner ==
  ASSUME IInv, NEW r \in Request, DeletesRow(r), NEW id \in OrgId, OrgOf(r) = id,
         HasRow(id), Confirmed(id)
  PROVE  id \in WantedIds
<1>0. TypeOK /\ ControlInv /\ OnceInv /\ DeletersInv /\ StandsInv
  BY DEF IInv, StoreInv, OwnerInv
<1>1. PICK s \in Request : Acked(s) /\ created[s] = id
  BY DEF Confirmed
<1>2. created[s] # NoId /\ call[s].user \in User
  BY <1>0, <1>1, SpellingAssumption DEF ControlInv, Established
<1>3. ~ At(r, "compensate")
  <2> SUFFICES ASSUME At(r, "compensate") PROVE FALSE
    OBVIOUS
  <2>1. call[r].op = "create"
    BY <1>0, CallFields DEF ControlInv, Established, Step, StepsOf, Op, TypeOK
  <2>2. r = s
    BY <1>1, <1>2, <1>0, <2>1 DEF OnceInv, OrgOf
  <2>3. pc[s] = "done" /\ late[s] = "none"
    BY <1>0, <1>1 DEF Acked, ControlInv, Established
  <2> QED
    BY <2>2, <2>3 DEF At
<1>4. At(r, "deleteRow")
  BY <1>3 DEF DeletesRow
<1>5. PICK q \in Request : created[q] = id /\ DeletesWorkOf(r, q)
  BY <1>0, <1>4 DEF DeletersInv
<1>6. q = s
  BY <1>0, <1>1, <1>2, <1>5 DEF OnceInv
<1>7. call[s].user \in users => members[id][call[s].user] = "owner"
  BY <1>0, <1>1 DEF StandsInv, Stands, Owned, Acked
<1>8. call[r].op = "delete" /\ call[r].user = call[s].user
  BY <1>1, <1>5, <1>6 DEF DeletesWorkOf
<1>9. RoleOf(id, call[r].user) = "owner" \/ call[r].user \notin users
  BY <1>2, <1>7, <1>8 DEF RoleOf
<1> QED
  BY <1>4, <1>8, <1>9 DEF WantedIds, Deletes, At

\* What a request does to the rows is Reserve, Close, Rename or nothing.
LEMMA RowStep ==
  ASSUME IInv, [Next]_vars, \A s \in Request : Acked(s)' => Acked(s),
         NEW r \in Request, Takes(r)
  PROVE  Ledger!LedgerNext
<1>0. /\ TypeOK /\ ControlInv /\ StoreInv /\ Writes(r)
      /\ organizations \in [OrgId -> Row \cup {NoRow}] /\ issued \subseteq OrgId
  BY TakesShape DEF IInv, TypeOK, StoresTypeOK
<1>1. ASSUME NEW id \in OrgId, organizations'[id] = organizations[id],
             id \in issued' <=> id \in issued
      PROVE  SameEntry(id)
  BY <1>0, <1>1, EntryStays
<1>2. ASSUME UNCHANGED <<organizations, issued>> PROVE Ledger!LedgerNext
  BY <1>1, <1>2, NoEntry
<1>3. CASE InsertsOrg(r)
  <2>1. PICK name \in Name, slug \in Slug :
          name = Trim[call[r].name] /\ slug = Slugify[call[r].slug]
    <3>1. Trim[call[r].name] \in Name /\ Slugify[call[r].slug] \in Slug
      BY <1>0, <1>3, CallFields, OrganizationsAssumption
      DEF TypeOK, ControlInv, Established, InsertsOrg
    <3> QED
      BY <3>1
  <2>2. PICK id \in OrgId : /\ ~ SlugTaken(slug, NoId)
                            /\ InsertOrganizationRow(id, name, slug)
    BY <1>3, <2>1 DEF InsertsOrg, Inserts
  <2>3. /\ id \notin issued /\ issued' = issued \cup {id}
        /\ organizations' = [organizations EXCEPT ![id] = [name |-> name, slug |-> slug]]
    BY <2>2 DEF InsertOrganizationRow
  <2>4. ASSUME NEW other \in OrgId, other # id PROVE SameEntry(other)
    BY <1>0, <1>1, <2>3, <2>4
  <2>5. \A other \in OrgId : HasRow(other) => organizations[other].slug # slug
    BY <2>2, SpellingAssumption DEF SlugTaken
  <2>6. SlugFree(slug, id)
    BY <2>5, NoSlugAssumption DEF SlugFree, HoldsOf
  <2>7. HasRow(id)' /\ HoldsOf(id)' = slug
    BY <1>0, <2>3, NoRowAssumption DEF HasRow, HoldsOf
  <2>8. ~ Confirmed(id)'
    <3>1. ~ Confirmed(id)
      BY <1>0, <2>3, SpellingAssumption DEF Confirmed, StoreInv, IssuedInv
    <3> QED
      BY <1>0, <3>1, SameConfirmed
  <2>9. LifeOf(id) = "unborn" /\ LifeOf(id)' = "pending"
    BY <2>3, <2>7, <2>8 DEF LifeOf, Confirmed
  <2> QED
    BY <2>4, <2>6, <2>7, <2>9, OneEntry DEF Reserves
<1>4. CASE DeletesRow(r)
  <2>1. PICK id \in OrgId : id = OrgOf(r)
    BY <1>0, <1>4, WritesWhere
  <2>2. organizations' = [organizations EXCEPT ![id] = NoRow] /\ issued' = issued
    BY <1>4, <2>1 DEF DeletesRow, DeleteOrganizationRow
  <2>3. CASE ~ HasRow(id)
    BY <1>0, <1>2, <2>2, <2>3 DEF HasRow
  <2>4. CASE HasRow(id)
    <3>1. ASSUME NEW other \in OrgId, other # id PROVE SameEntry(other)
      BY <1>0, <1>1, <2>2, <3>1
    <3>2. id \in issued /\ id \in issued' /\ ~ HasRow(id)'
      BY <1>0, <2>2, <2>4 DEF StoreInv, CascadeInv, HasRow
    <3>3. LifeOf(id)' = "closed" /\ HoldsOf(id)' = NoSlug
      BY <3>2 DEF LifeOf, HoldsOf
    <3>4. LifeOf(id) = "pending" \/ (LifeOf(id) = "open" /\ Confirmed(id))
      BY <2>4, <3>2 DEF LifeOf, Confirmed
    <3>5. Confirmed(id) => id \in WantedIds
      BY <1>4, <2>1, <2>4, ClosedByOwner
    <3> QED
      BY <3>1, <3>3, <3>4, <3>5, OneEntry DEF Closes
  <2> QED
    BY <2>3, <2>4
<1>5. CASE SetsRow(r)
  <2>1. PICK id \in OrgId : id = OrgOf(r)
    BY <1>0, <1>5, WritesWhere
  <2>2. CASE ~ HasRow(id)
    <3>1. organizations' = [organizations EXCEPT ![id] = NoRow] /\ issued' = issued
      BY <1>5, <2>1, <2>2 DEF SetsRow, UpdateOrganizationRow
    <3> QED
      BY <1>0, <1>2, <2>2, <3>1 DEF HasRow
  <2>3. CASE HasRow(id)
    <3>1. PICK row \in Row : row = UpdatedRow(organizations[id], call[r])
      BY <1>0, <1>5, <2>1, <2>3, UpdatedRowType DEF SetsRow
    <3>2. /\ organizations' = [organizations EXCEPT ![id] = row] /\ issued' = issued
          /\ ~ SlugTaken(row.slug, id)
      BY <1>5, <2>1, <2>3, <3>1 DEF SetsRow, UpdateOrganizationRow
    <3>3. row.slug \in Slug /\ row # NoRow
      BY <3>1, NoRowAssumption DEF Row
    <3>4. ASSUME NEW other \in OrgId, other # id PROVE SameEntry(other)
      BY <1>0, <1>1, <3>2, <3>4
    <3>5. HasRow(id)' /\ HoldsOf(id)' = row.slug
      BY <1>0, <3>2, <3>3 DEF HasRow, HoldsOf
    <3>6. SlugFree(row.slug, id)
      BY <3>2, <3>3, NoSlugAssumption DEF SlugFree, HoldsOf, SlugTaken
    <3>7. Confirmed(id)' <=> Confirmed(id)
      BY <1>0, SameConfirmed
    <3>8. id \in issued
      BY <1>0, <2>3 DEF StoreInv, CascadeInv
    <3>9. LifeOf(id) \in {"pending", "open"} /\ LifeOf(id)' = LifeOf(id)
      BY <2>3, <3>2, <3>5, <3>7, <3>8 DEF LifeOf, Confirmed
    <3> QED
      BY <3>3, <3>4, <3>5, <3>6, <3>9, OneEntry DEF Renames
  <2> QED
    BY <2>2, <2>3
<1>6. CASE \/ UNCHANGED <<stores, created>>
           \/ AddsOwner(r) \/ EnsuresNs(r) \/ DeletesNs(r) \/ CreatesCR(r)
  <2>1. UNCHANGED <<organizations, issued>>
    BY <1>6 DEF stores, AddsOwner, InsertsOwner, InsertMemberRow, EnsuresNs, EnsureOrgNamespace,
                DeletesNs, DeleteOrgNamespace, CreatesCR, CreateResource
  <2> QED
    BY <1>2, <2>1
<1> QED
  BY <1>0, <1>3, <1>4, <1>5, <1>6 DEF Writes

LEMMA LedgerStep ==
  ASSUME IInv, [Next]_vars
  PROVE  Ledger!LedgerNext
<1>0. TypeOK /\ ControlInv
  BY DEF IInv
<1>1. CASE \E r \in Request : ~ Acked(r) /\ Acked(r)'
  BY <1>1, ConfirmStep
<1>2. CASE \A r \in Request : Acked(r)' => Acked(r)
  <2>1. CASE \E r \in Request : Takes(r)
    BY <1>2, <2>1, RowStep
  <2>2. CASE OtherStep
    <3>1. UNCHANGED <<organizations, issued>>
      BY <1>0, <2>2, OtherSteps
    <3>2. \A id \in OrgId : SameEntry(id)
      BY <1>0, <1>2, <3>1, EntryStays
    <3> QED
      BY <3>2, NoEntry
  <2> QED
    BY <2>1, <2>2, NextSplit
<1> QED
  BY <1>1, <1>2

\* The handlers keep the promises of OrgLedger, whatever fails and whoever else is
\* served: an id stands for one organization, slugs are held by one at a time, and
\* a confirmed organization closes only while a deletion goes on that its owner asked
\* for, or who was that and has no account any more (service.go:140-171, 245-262, 280-305).
THEOREM ImplementsLedger == Spec => KeepsLedger
<1>1. Init => Ledger!LedgerInit
  BY DEF Init, StoresInit, Ledger!LedgerInit, LifeOf, HasRow
<1>2. IInv /\ [Next]_vars => Ledger!LedgerNext
  BY LedgerStep
<1> QED
  BY <1>1, <1>2, Inductive, PTL DEF Spec, KeepsLedger, Ledger!LedgerSpec

-----------------------------------------------------------------------------
(* What the promises of the ledger mean for the handlers *)

LEMMA EntriesLast ==
  ASSUME Ledger!LedgerNext
  PROVE  Ledger!Lasts
<1>1. ASSUME NEW id \in OrgId, NEW stage \in Ledger!Stage,
             LifeMap' = [LifeMap EXCEPT ![id] = stage],
             LifeMap[id] # "closed", stage # "unborn",
             LifeMap[id] = "open" => stage = "open" \/ (stage = "closed" /\ id \in WantedIds)
      PROVE  Ledger!Lasts
  <2>1. \A other \in OrgId : LifeMap'[other] = IF other = id THEN stage ELSE LifeMap[other]
    BY <1>1 DEF LifeMap
  <2> QED
    BY <1>1, <2>1 DEF Ledger!Lasts, LifeMap, WantedIds
<1>2. ASSUME LifeMap' = LifeMap
      PROVE  Ledger!Lasts
  BY <1>2 DEF Ledger!Lasts, LifeMap
<1>3. ASSUME NEW id \in OrgId, Ledger!Confirm(id)
      PROVE  Ledger!Lasts
  BY <1>1, <1>3 DEF Ledger!Confirm, Ledger!Stage, LifeMap
<1>4. ASSUME NEW id \in OrgId, Ledger!Close(id)
      PROVE  Ledger!Lasts
  BY <1>1, <1>4 DEF Ledger!Close, Ledger!Stage, LifeMap, WantedIds
<1>5. ASSUME NEW id \in OrgId, NEW slug \in Slug, Ledger!Reserve(id, slug)
      PROVE  Ledger!Lasts
  BY <1>1, <1>5 DEF Ledger!Reserve, Ledger!Stage, LifeMap
<1>6. ASSUME NEW id \in OrgId, NEW slug \in Slug, Ledger!Rename(id, slug)
      PROVE  Ledger!Lasts
  BY <1>2, <1>6 DEF Ledger!Rename, LifeMap
<1> QED
  BY <1>2, <1>3, <1>4, <1>5, <1>6 DEF Ledger!LedgerNext, LifeMap

\* The slug of a row is none of those that stand for no slug.
LEMMA SlugsAreHeld ==
  ASSUME IInv, NEW id \in OrgId
  PROVE  /\ HasRow(id) <=> HoldsMap[id] # NoSlug
         /\ HasRow(id) <=> LifeMap[id] \in {"pending", "open"}
         /\ HasRow(id) => HoldsMap[id] = organizations[id].slug
<1>1. HasRow(id) => organizations[id].slug \in Slug /\ id \in issued
  BY DEF IInv, TypeOK, StoresTypeOK, Row, HasRow, StoreInv, CascadeInv
<1>2. HoldsMap[id] = HoldsOf(id) /\ LifeMap[id] = LifeOf(id)
  BY DEF HoldsMap, LifeMap
<1> QED
  BY <1>1, <1>2, NoSlugAssumption DEF HoldsOf, LifeOf

\* So, whatever fails and whoever else is served: an id that was closed is never used
\* again, a confirmed organization ends only while a deletion its owner asked for goes
\* on, and a slug has one holder (service.go:140-171, 245-262, 280-305).
THEOREM LedgerMeansIt == Spec => Ledger!LivesLast /\ []Ledger!HeldByOne
<1>1. IInv /\ [Next]_vars => [Ledger!Lasts]_(Ledger!ledger)
  BY LedgerStep, EntriesLast
<1>2. IInv => Ledger!HeldByOne
  <2> SUFFICES ASSUME IInv PROVE Ledger!HeldByOne
    OBVIOUS
  <2>1. ASSUME NEW i \in OrgId, NEW j \in OrgId, i # j, HoldsMap[i] = HoldsMap[j]
        PROVE  HoldsMap[i] = NoSlug
    BY <2>1, SlugsAreHeld DEF IInv, StoreInv, UniqueInv
  <2>2. \A id \in OrgId : HoldsMap[id] # NoSlug <=> LifeMap[id] \in {"pending", "open"}
    BY SlugsAreHeld
  <2> QED
    BY <2>1, <2>2 DEF Ledger!HeldByOne, HoldsMap, LifeMap, HoldsOf
<1> QED
  BY <1>1, <1>2, Inductive, PTL DEF Spec, Ledger!LivesLast
=============================================================================
