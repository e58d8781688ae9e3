-------------------------- MODULE SessionsInvariants --------------------------
(***************************************************************************)
(* The inductive invariant of Sessions: what a request has proved to the   *)
(* interceptor stays on record, in rows that are never changed and tokens  *)
(* that are never lost, whatever happens to the tables meanwhile.          *)
(***************************************************************************)
EXTENDS SessionsProperties

\* Where a request is says what it asked for and whether it is answered.
Progress ==
  \A r \in Request :
    /\ pc[r] # "idle" => call[r] \in Call
    /\ pc[r] = "done" <=> code[r] # "none"
    /\ pc[r] \in {"authenticate", "touch"} => call[r].method \notin PublicMethods
    /\ pc[r] = "handler" => ~ Invalid(call[r])
    /\ pc[r] = "issue" => call[r].method \in {"Register", "Login"} /\ userID[r] \in UserId
    /\ sentAt[r] <= now

\* What a request sees as answered is answered for good.
SeenAnswered == \A r \in Request : \A q \in seen[r] : code[q] = "OK"

\* LookupAPIKey found a live row for r, the one that was inserted.
FoundKey(r) ==
  LET key == minted[cred[r]] IN
  /\ cred[r] \in KeyId
  /\ key # NoKey
  /\ userID[r] = key.user
  /\ scopes[r] = key.scopes
  /\ key.expiresAt \in Nat => sentAt[r] < key.expiresAt
  /\ \A q \in seen[r] : ~ Revoked(q, cred[r])

\* r came with an access token of its user that was good when it was sent.
HeldToken(r) ==
  /\ cred[r] \in tokens
  /\ cred[r].type = "access"
  /\ userID[r] = cred[r].user
  /\ sentAt[r] < cred[r].exp

KeysFound == \A r \in Request : pc[r] = "touch" => FoundKey(r)

\* r is past the interceptor, and was not turned down since.
Admitted(r) == (pc[r] = "handler" \/ code[r] = "OK") /\ call[r].method \notin PublicMethods

AdmittedRightly ==
  \A r \in Request : Admitted(r) =>
    \/ HeldToken(r)
    \/ FoundKey(r) /\ EnforceAccess(call[r].method, FALSE, minted[cred[r]].scopes)

\* A row is as it was inserted, or gone, and stays so once revoked.
KeysFixed ==
  /\ \A k \in KeyId : keys[k] \in {NoKey, minted[k]}
  /\ \A q \in Request, k \in KeyId : Revoked(q, k) => minted[k] # NoKey /\ keys[k] = NoKey

\* q, answered, made a key with this row.
Made(q, row) ==
  /\ pc[q] = "done"
  /\ call[q].method = "CreateUserApiKey"
  /\ call[q].scopes = row.scopes
  /\ cred[q] \in tokens
  /\ cred[q].type = "access"
  /\ cred[q].user = row.user

KeysMade == \A k \in KeyId : minted[k] # NoKey => \E q \in Request : Made(q, minted[k])

\* q, which gave a password, accounts for the token t.
Accounts(q, t) ==
  /\ pc[q] = "done"
  /\ signedAt[q] > 0
  /\ call[q].method \in {"Register", "Login"}
  /\ userID[q] = t.user
  /\ t.exp <= signedAt[q] + RefreshTokenExpiry
                + (IF t.type = "access" THEN AccessTokenExpiry ELSE 0)

TokensAccounted == \A t \in tokens : \E q \in Request : Accounts(q, t)

EmailsTrimmed ==
  \A u \in UserId : users[u] # NoUser => TrimEmail[users[u].email] = users[u].email

EmailsUnique ==
  \A u, v \in UserId :
    (u # v /\ users[u] # NoUser /\ users[v] # NoUser) => users[u].email # users[v].email

\* A request has no user before the interceptor or a password gave it one, and
\* has given no password before it is answered.
NobodyYet ==
  \A r \in Request :
    /\ pc[r] \in {"idle", "authenticate"} => userID[r] = NoUser
    /\ pc[r] # "done" => signedAt[r] = 0

AccountsJoined == \A u \in UserId : users[u] # NoUser => u \in joined

\* The row r inserted is as r asked for, or gone for good.
SignedUp(r) == call[r].method = "Register" /\ (pc[r] = "issue" \/ code[r] = "OK")

RegisteredRows ==
  \A r \in Request : SignedUp(r) =>
    /\ userID[r] \in joined
    /\ users[userID[r]] \in
         {NoUser, [email |-> TrimEmail[call[r].email], password |-> call[r].password]}

IInv ==
  /\ TypeOK
  /\ Progress
  /\ SeenAnswered
  /\ KeysFound
  /\ AdmittedRightly
  /\ KeysFixed
  /\ KeysMade
  /\ TokensAccounted
  /\ EmailsTrimmed
  /\ EmailsUnique
  /\ NobodyYet
  /\ AccountsJoined
  /\ RegisteredRows
  /\ RegisteredGetIn
=============================================================================
