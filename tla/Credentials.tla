------------------------------ MODULE Credentials ------------------------------
(***************************************************************************)
(* What the credentials of internal/auth promise, without tokens, tables   *)
(* or interceptors.  A request comes to act for a user in one instant: by  *)
(* a session, if a password of the user was given recently enough, or by a *)
(* key that is live in that instant.  Later it does one thing, or nothing. *)
(* Keys are made and ended by sessions of their user alone.                *)
(***************************************************************************)
EXTENDS Access, Integers

CONSTANTS
  Request, UserId, KeyId, RawScope,
  NoUser, NoKey,
  Never,                                \* the expiry of a key that has none
  AccessTokenExpiry, RefreshTokenExpiry

VARIABLES
  now,
  account, \* of each user id: "none", "open" or "removed"
  proven,  \* when a password of whom was given
  grant,   \* what each key was made for, NoKey if it was not
  live,    \* the keys that are neither revoked nor gone with their account
  actor,   \* whom a request acts for, NoUser if it is nobody yet, and the key it
           \* acts by, NoKey in a session
  outcome  \* the method a request was served, "failed", or "none" as yet

cvars == <<now, account, proven, grant, live, actor, outcome>>

Grant == [user : UserId, scopes : SUBSET RawScope, expiresAt : Nat \cup {Never}]
Actor == [user : UserId, key : KeyId \cup {NoKey}]
Nobody == [user |-> NoUser, key |-> NoKey]

CInit ==
  /\ now = 1
  /\ account \in [UserId -> {"none", "open"}]
  /\ proven = {}
  /\ grant = [k \in KeyId |-> NoKey]
  /\ live = {}
  /\ actor = [r \in Request |-> Nobody]
  /\ outcome = [r \in Request |-> "none"]

\* What became of r is known, and is one of these.
Ends(r, outcomes) ==
  /\ outcome[r] = "none" /\ outcome'[r] \in outcomes
  /\ outcome' = [outcome EXCEPT ![r] = outcome'[r]]

\* A refresh token lives from the password on, its last access token from there.
InSession(u) ==
  \E p \in proven : /\ p.user = u
                    /\ now < p.at + RefreshTokenExpiry + AccessTokenExpiry

Unexpired(k) == grant[k].expiresAt \in Nat => now < grant[k].expiresAt

SignedIn(r) == actor[r] # Nobody /\ actor[r].key = NoKey

-----------------------------------------------------------------------------

\* The password of u is given, in a Register or a Login.
Prove(u) ==
  /\ proven' = proven \cup {[user |-> u, at |-> now]}
  /\ UNCHANGED <<now, account, grant, live, actor, outcome>>

\* r comes to act for somebody; what it asks for may be refused on the spot.
Enter(r) ==
  /\ actor[r] = Nobody /\ outcome[r] = "none" /\ actor'[r] \in Actor
  /\ LET key == actor'[r].key
     IN  IF key = NoKey THEN InSession(actor'[r].user)
         ELSE key \in live /\ Unexpired(key) /\ grant[key].user = actor'[r].user
  /\ actor' = [actor EXCEPT ![r] = actor'[r]]
  /\ UNCHANGED outcome \/ Ends(r, {"failed"})
  /\ UNCHANGED <<now, account, proven, grant, live>>

Served == Method \ (PublicMethods \cup {"CreateUserApiKey", "RevokeUserApiKey"})

\* A key serves the methods its scopes name, whatever became of it since it was
\* looked up; a session serves all, but there is no profile without an account.
Serve(r) ==
  /\ actor[r] # Nobody
  /\ Ends(r, Served)
  /\ actor[r].key # NoKey => HasScope(grant[actor[r].key].scopes, outcome'[r])
  /\ outcome'[r] \in {"GetMe", "UpdateProfile"} => account[actor[r].user] = "open"
  /\ UNCHANGED <<now, account, proven, grant, live, actor>>

\* A session makes a key for its user; the answer may be lost.
Mint(r, k) ==
  /\ SignedIn(r) /\ account[actor[r].user] = "open"
  /\ grant[k] = NoKey
  /\ grant'[k] \in Grant /\ grant'[k].user = actor[r].user
  /\ grant' = [grant EXCEPT ![k] = grant'[k]]
  /\ live' = live \cup {k}
  /\ Ends(r, {"CreateUserApiKey", "failed"})
  /\ UNCHANGED <<now, account, proven, actor>>

\* A session ends a key of its user; the answer may be lost.
Revoke(r, k) ==
  /\ SignedIn(r)
  /\ k \in live /\ grant[k].user = actor[r].user
  /\ live' = live \ {k}
  /\ Ends(r, {"RevokeUserApiKey", "failed"})
  /\ UNCHANGED <<now, account, proven, grant, actor>>

Fail(r) ==
  /\ Ends(r, {"failed"})
  /\ UNCHANGED <<now, account, proven, grant, live, actor>>

Open(u) ==
  /\ account[u] = "none"
  /\ account' = [account EXCEPT ![u] = "open"]
  /\ UNCHANGED <<now, proven, grant, live, actor, outcome>>

\* An account goes for good, and its keys with it.
Remove(u) ==
  /\ account[u] = "open"
  /\ account' = [account EXCEPT ![u] = "removed"]
  /\ live' = {k \in live : grant[k].user # u}
  /\ UNCHANGED <<now, proven, grant, actor, outcome>>

Tick == now' = now + 1 /\ UNCHANGED <<account, proven, grant, live, actor, outcome>>

CNext ==
  \/ \E r \in Request :
       \/ Enter(r) \/ Serve(r) \/ Fail(r)
       \/ \E k \in KeyId : Mint(r, k) \/ Revoke(r, k)
  \/ \E u \in UserId : Prove(u) \/ Open(u) \/ Remove(u)
  \/ Tick

CSpec == CInit /\ [][CNext]_cvars

-----------------------------------------------------------------------------
(* What follows *)

\* A live key belongs to an account that is open.
LiveKeysOwned ==
  \A k \in live : grant[k] \in Grant /\ account[grant[k].user] = "open"

\* Who acts by a key acts for the user it was made for, in its scopes alone.
ActsWithinGrant ==
  \A r \in Request : actor[r].key # NoKey =>
    /\ actor[r].key \in KeyId
    /\ grant[actor[r].key] \in Grant
    /\ actor[r].user = grant[actor[r].key].user
    /\ outcome[r] \in {"none", "failed"} \/ HasScope(grant[actor[r].key].scopes, outcome[r])

\* A key that ended does not come back, and no key changes hands or scopes.
GrantKept ==
  \A k \in KeyId : grant[k] # NoKey =>
    grant'[k] = grant[k] /\ (k \in live' => k \in live)

EndsForGood == [][GrantKept]_cvars
=============================================================================
