------------------------------ MODULE OrgLedger ------------------------------
(***************************************************************************)
(* What the service promises about organizations, whatever stores it keeps *)
(* them in and whoever is served at the same time: an id is used for one   *)
(* organization and never again, no two organizations hold one slug, and   *)
(* an organization whose creation was confirmed lasts until its owner      *)
(* wants it deleted.                                                       *)
(***************************************************************************)
CONSTANTS OrgId, Slug, NoSlug

VARIABLES
  life,   \* stage of life of the organization an id stands for
  holds,  \* the slug it holds
  wanted  \* organizations with a deletion under way that their owner asked for, who
          \* may have lost the account since

ledger == <<life, holds, wanted>>

Stage == {"unborn", "pending", "open", "closed"}

LedgerTypeOK ==
  /\ life \in [OrgId -> Stage]
  /\ holds \in [OrgId -> Slug \cup {NoSlug}]
  /\ wanted \subseteq OrgId

LedgerInit ==
  /\ life = [id \in OrgId |-> "unborn"]
  /\ holds = [id \in OrgId |-> NoSlug]
  /\ wanted = {}

Free(slug, id) == \A other \in OrgId \ {id} : holds[other] # slug

Reserve(id, slug) ==
  /\ life[id] = "unborn"
  /\ Free(slug, id)
  /\ life' = [life EXCEPT ![id] = "pending"]
  /\ holds' = [holds EXCEPT ![id] = slug]

Confirm(id) ==
  /\ life[id] = "pending"
  /\ life' = [life EXCEPT ![id] = "open"]
  /\ UNCHANGED holds

\* Before it is confirmed an organization can be withdrawn at any time, after
\* that only because its owner wants it.
Close(id) ==
  /\ life[id] = "pending" \/ (life[id] = "open" /\ id \in wanted)
  /\ life' = [life EXCEPT ![id] = "closed"]
  /\ holds' = [holds EXCEPT ![id] = NoSlug]

Rename(id, slug) ==
  /\ life[id] \in {"pending", "open"}
  /\ Free(slug, id)
  /\ holds' = [holds EXCEPT ![id] = slug]
  /\ UNCHANGED life

\* Owners change their minds at any time.
LedgerNext ==
  /\ wanted' \in SUBSET OrgId
  /\ \/ UNCHANGED <<life, holds>>
     \/ \E id \in OrgId :
          \/ Confirm(id) \/ Close(id)
          \/ \E slug \in Slug : Reserve(id, slug) \/ Rename(id, slug)

LedgerSpec == LedgerInit /\ [][LedgerNext]_ledger

-----------------------------------------------------------------------------
(* What it means *)

\* What is closed stays closed, what was born was born, and what is open ends only by the
\* wish of its owner.
Lasts ==
  \A id \in OrgId :
    /\ life[id] = "closed" => life'[id] = "closed"
    /\ life[id] = "open" => \/ life'[id] = "open"
                            \/ life'[id] = "closed" /\ id \in wanted
    /\ life[id] # "unborn" => life'[id] # "unborn"

LivesLast == [][Lasts]_ledger

\* A slug has one holder, and only what lives holds one.
HeldByOne ==
  /\ \A i, j \in OrgId : i # j /\ holds[i] = holds[j] => holds[i] = NoSlug
  /\ \A id \in OrgId : holds[id] # NoSlug <=> life[id] \in {"pending", "open"}
=============================================================================
