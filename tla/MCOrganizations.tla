---------------------------- MODULE MCOrganizations ----------------------------
(***************************************************************************)
(* Instances of Organizations for TLC: alice creates and deletes, bob      *)
(* works in her organization and has one of his own.  The id o1 is named   *)
(* by the calls, o2 is there for a second organization; which of them a    *)
(* CreateOrganization gets is left open.  The id o1 can also be spelled    *)
(* without hyphens and in upper case; "junk" is no UUID, and a legal name. *)
(***************************************************************************)
EXTENDS OrganizationsInvariants, TLC

CONSTANTS alice, bob, o1, o2

MCUser  == {alice, bob}
MCOrgId == {o1, o2}

MCLegal    == MCOrgId \cup {"no hyphens", "junk"}
MCSpelling == MCLegal \cup {"upper case"}
MCNoId     == "no id"
MCUuid     == o1 :> o1 @@ o2 :> o2 @@ "no hyphens" :> o1 @@ "upper case" :> o1
              @@ "junk" :> MCNoId @@ MCNoId :> MCNoId

MCName     == {"", "n", "m"}
MCRawName  == {"", " ", "n", " m "}
MCTrim     == "" :> "" @@ " " :> "" @@ "n" :> "n" @@ " m " :> "m"

MCSlug    == {"acme", "beta"}
MCBadSlug == "bad slug"
MCRawSlug == {"", "acme", " Acme ", "beta", "-"}
MCSlugify == "" :> MCBadSlug @@ "acme" :> "acme" @@ " Acme " :> "acme"
             @@ "beta" :> "beta" @@ "-" :> MCBadSlug

MCResource == {"builder", "template"}

NoSeat  == {}
NoLeavers == {}
LeaveAlice == {alice}
TeamSeat == [user : MCUser, role : {"admin", "member"}]

-----------------------------------------------------------------------------
(* Calls; fields an operation does not look at have a fixed value *)

Creates(u, names, slugs, args) ==
  [op : {"create"}, user : {u}, id : {MCNoId}, name : names, slug : slugs,
   args : args, res : {"builder"}]

Updates(u, names, slugs, args) ==
  [op : {"update"}, user : {u}, id : {o1}, name : names, slug : slugs,
   args : args, res : {"builder"}]

Asks(op, u, id, args) ==
  [op : {op}, user : {u}, id : {id}, name : {"n"}, slug : {"acme"},
   args : {args}, res : {IF op = "createTemplate" THEN "template" ELSE "builder"}]

\* One organization, its owner impatient.
OwnerCalls ==
  Creates(alice, {"n"}, {"acme"}, {"none"})
  \cup Asks("delete", alice, o1, "none")
  \cup Asks("createBuilder", alice, o1, "ok")

\* Two users who contend for slugs.
SlugCalls ==
  Creates(alice, {"n"}, {"acme", " Acme "}, {"none"})
  \cup Creates(bob, {"n"}, {"acme", "beta"}, {"none"})
  \cup Updates(alice, {""}, {" Acme "}, {"none"})
  \cup Updates(alice, {" m "}, {"beta"}, {"none"})
  \cup Asks("delete", alice, o1, "none")

\* An admin or member next to the owner, and requests that are turned down.
TeamCalls ==
  Creates(alice, {"n"}, {"acme"}, {"none"})
  \cup Updates(bob, {"n"}, {""}, {"none"}) \cup Updates(bob, {""}, {""}, {"bad"})
  \cup Asks("delete", alice, o1, "none") \cup Asks("delete", bob, o1, "none")
  \cup Asks("get", bob, o1, "none")
  \cup Asks("createBuilder", bob, o1, "bad") \cup Asks("createTemplate", bob, o1, "ok")

RefusedCalls ==
  Creates(bob, {" "}, {"beta"}, {"none"}) \cup Creates(bob, {"n"}, {"-"}, {"none"})
  \cup Creates(bob, {"n"}, {"beta"}, {"bad"})
  \cup Asks("get", Anonymous, o1, "none") \cup Asks("delete", bob, MCNoId, "none")
  \cup Updates(alice, {""}, {"-"}, {"none"})

AllTeamCalls == TeamCalls \cup RefusedCalls

\* The owner, who spells the id in more ways than one.
SpellingCalls ==
  Creates(alice, {"n"}, {"acme"}, {"none"})
  \cup UNION {Asks("delete", alice, n, "none") \cup Asks("createBuilder", alice, n, "ok") :
                n \in MCSpelling \ {o2}}

MisnamedCalls ==
  Creates(alice, {"n"}, {"acme"}, {"none"}) \cup Asks("delete", alice, "upper case", "none")

\* For the runs under fairness: the same, in two spellings.
TwoSpellings ==
  OwnerCalls \cup Asks("delete", alice, "no hyphens", "none")
  \cup Asks("createBuilder", alice, "no hyphens", "ok")

AnyCall == OwnerCalls \cup SlugCalls \cup AllTeamCalls \cup SpellingCalls

AllAsk(calls) == \A r \in Request : call[r] \in calls

NoOtherSeats == \A i \in MCOrgId, u \in MCUser : members[i][u] \in {"none", "owner"}

AllStay == users = MCUser

NothingFails ==
  dirty = {} /\ cancelled = {} /\ \A r \in Request : pc[r] # "dead" /\ errs[r] = 0

\* At most one each.
ErrorsOnly ==
  dirty = {} /\ cancelled = {} /\ \A r \in Request : pc[r] # "dead" /\ errs[r] <= 1

\* At most one request fails.
OneFails == \A r, q \in Request : r # q => errs[r] + errs[q] <= 1

\* A request whose client left, whose replica died or that lost an answer.
Beset(r) == pc[r] = "dead" \/ r \in cancelled \cup dirty

\* Every fault, and one owner.  A request may fail and fail to clean up; the
\* errors of two requests are two at most, and one of them is given up, dies or
\* loses an answer.
InFaults ==
  /\ AllAsk(OwnerCalls) /\ NoOtherSeats /\ AllStay
  /\ \A r, q \in Request : r # q => errs[r] + errs[q] <= 2 /\ ~ (Beset(r) /\ Beset(q))

\* A team, where one request fails, or one is turned down for its fields, or the
\* operators change roles.
InTeam ==
  /\ AllAsk(AllTeamCalls) /\ ErrorsOnly /\ AllStay /\ OneFails
  /\ NothingFails \/ (NoOtherSeats /\ AllAsk(TeamCalls))
  /\ NoOtherSeats \/ AllAsk(TeamCalls)
  /\ \A r, q \in Request : r # q => {call[r], call[q]} \cap TeamCalls # {}

\* Two owners, where one request fails.
InLedger == AllAsk(SlugCalls) /\ NoOtherSeats /\ ErrorsOnly /\ OneFails /\ AllStay

\* Ids in every spelling.
InSpellings == AllAsk(SpellingCalls) /\ NoOtherSeats /\ NothingFails /\ AllStay

\* The owner's account may go at any time, next to an admin or member.
InLeaving ==
  /\ AllAsk(OwnerCalls \cup Asks("delete", bob, o1, "none"))
  /\ NothingFails \/ (NoOtherSeats /\ ErrorsOnly)

InOrganizations == InFaults \/ InTeam \/ InLedger \/ InSpellings \/ InLeaving

Symmetry == Permutations(Request)
=============================================================================
