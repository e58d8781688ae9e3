-------------------------- MODULE SessionsProperties --------------------------
(***************************************************************************)
(* What must hold of credentials and accounts, in every interleaving of    *)
(* the requests of module Sessions.                                        *)
(***************************************************************************)
EXTENDS Sessions

\* The shape of the tables, of what clients hold and of the handlers' progress
\* (whole state of internal/auth).
TypeOK ==
  /\ users \in [UserId -> UserRow \cup {NoUser}]
  /\ joined \subseteq UserId
  /\ keys \in [KeyId -> KeyRow \cup {NoKey}]
  /\ lastUsed \in [KeyId -> Nat]
  /\ tokens \subseteq Token
  /\ secrets \subseteq KeyId
  /\ now \in Nat \ {0}
  /\ pc \in [Request -> Step \cup {"idle", "done"}]
  /\ call \in [Request -> Call \cup {NoCall}]
  /\ cred \in [Request -> Credential]
  /\ userID \in [Request -> UserId \cup {NoUser}]
  /\ scopes \in [Request -> SUBSET RawScope]
  /\ code \in [Request -> Code]
  /\ minted \in [KeyId -> KeyRow \cup {NoKey}]
  /\ sentAt \in [Request -> Nat]
  /\ seen \in [Request -> SUBSET Request]
  /\ signedAt \in [Request -> Nat]

-----------------------------------------------------------------------------
(* Vocabulary *)

\* r got past the interceptor and was answered OK, by an API key or by a token.
Served(r) == code[r] = "OK" /\ call[r].method \notin PublicMethods
ServedByKey(r) == Served(r) /\ cred[r] \in KeyId
ServedByToken(r) == Served(r) /\ cred[r] \in Token

Revoked(q, k) == call[q].method = "RevokeUserApiKey" /\ call[q].id = k /\ code[q] = "OK"

-----------------------------------------------------------------------------
(* Safety *)

\* An API key opens nothing to a request sent after its expiry or after its
\* revocation was confirmed: LookupAPIKey is done for each request and sees the
\* row of that moment (apikeys.go:43-47, handler.go:310-316).
KeysEnd ==
  \A r \in Request : ServedByKey(r) =>
    LET key == minted[cred[r]] IN
    /\ key.expiresAt \in Nat => sentAt[r] < key.expiresAt
    /\ \A q \in seen[r] : ~ Revoked(q, cred[r])

\* What an API key opens was granted to it: by CreateUserApiKey, in a browser
\* session of the user it now works for, with the scope the method requires.  No
\* key makes another key (scopes.go:26-32, middleware.go:33-46).
KeysAreConfined ==
  \A r \in Request : ServedByKey(r) =>
    /\ HasScope(minted[cred[r]].scopes, call[r].method)
    /\ userID[r] = minted[cred[r]].user
    /\ \E q \in Request :
         /\ call[q].method = "CreateUserApiKey"
         /\ call[q].scopes = minted[cred[r]].scopes
         /\ cred[q] \in Token
         /\ cred[q].type = "access"
         /\ cred[q].user = userID[r]

\* Whoever acts with a token has given a password of that account (or registered
\* it) at most the life of a refresh token and of an access token before: no
\* chain of refreshes reaches further (handler.go:163-171, jwt.go:33-107).
SessionsEnd ==
  \A r \in Request : ServedByToken(r) =>
    \E q \in Request :
      /\ signedAt[q] > 0
      /\ userID[q] = userID[r]
      /\ call[q].method \in {"Register", "Login"}
      /\ sentAt[r] < signedAt[q] + RefreshTokenExpiry + AccessTokenExpiry

\* No two accounts have emails that differ only in surrounding space: Register
\* trims before it relies on the UNIQUE constraint (handler.go:32).
AccountsDistinct ==
  \A u, v \in UserId :
    (u # v /\ users[u] # NoUser /\ users[v] # NoUser) =>
      TrimEmail[users[u].email] # TrimEmail[users[v].email]

\* Who registered and trims the email gets in: a Login that is sent after a Register
\* was answered OK, with the email as it was stored and the same password, is not
\* turned down while the account exists, whatever is registered, tried or deleted
\* meanwhile (handler.go:32-42, 78-90).
RegisteredGetIn ==
  \A r, s \in Request :
    ( /\ call[r].method = "Register" /\ code[r] = "OK"
      /\ users[userID[r]] # NoUser
      /\ call[s].method = "Login" /\ r \in seen[s]
      /\ call[s].email = TrimEmail[call[r].email] /\ call[s].password = call[r].password )
    => code[s] # "Unauthenticated"

\* An API key disappears only by a revocation in a browser session of its own
\* user, or with the account (handler.go:310).
OthersKeysStay ==
  [][\A k \in KeyId : (keys[k] # NoKey /\ keys'[k] = NoKey) =>
       \/ users'[keys[k].user] = NoUser
       \/ \E r \in Request :
            /\ pc[r] = "handler" /\ pc'[r] = "done"
            /\ call[r].method = "RevokeUserApiKey" /\ call[r].id = k
            /\ cred[r] \in Token /\ cred[r].user = keys[k].user]_vars

-----------------------------------------------------------------------------
(* The abstract specification *)

\* Of the requests to methods that are not open to all, whom each works for since
\* the interceptor knew it, and what became of it.
Guarded(r) == call[r].method \notin PublicMethods

Actors ==
  [r \in Request |->
     IF userID[r] # NoUser /\ Guarded(r)
     THEN [user |-> userID[r], key |-> IF cred[r] \in KeyId THEN cred[r] ELSE NoKey]
     ELSE [user |-> NoUser, key |-> NoKey]]

Outcomes ==
  [r \in Request |-> IF ~ Guarded(r) \/ code[r] = "none" THEN "none"
                     ELSE IF code[r] = "OK" THEN call[r].method ELSE "failed"]

AccountStates ==
  [u \in UserId |-> IF users[u] # NoUser THEN "open"
                    ELSE IF u \in joined THEN "removed" ELSE "none"]

PasswordsGiven == {[user |-> userID[q], at |-> signedAt[q]] : q \in {r \in Request : signedAt[r] > 0}}

C == INSTANCE Credentials WITH
       account <- AccountStates, proven <- PasswordsGiven, grant <- minted,
       live <- {k \in KeyId : keys[k] # NoKey}, actor <- Actors, outcome <- Outcomes

\* With tokens nobody can take back, refreshes, and rows that are looked up, used
\* and deleted in separate statements, requests still act as if each was let in at
\* one instant, by a recent password or a live key, and did one thing
\* (middleware.go:65-99, apikeys.go:23-59, handler.go:163-330).
KeepsCredentials == C!CSpec

-----------------------------------------------------------------------------
(* What the documentation says and the code does not keep *)

\* "ValidScopes is the allowlist when creating API keys" (scopes.go:15): no key
\* has a scope that is not in it.
KeysHoldValidScopes ==
  \A k \in KeyId : keys[k] # NoKey => keys[k].scopes \subseteq ValidScopes

\* "Login authenticates with email/password and returns tokens" (auth.proto:19):
\* after a Register that was answered OK, a Login with the same email and
\* password is not turned down while the account exists.
RegisteredCanLogin ==
  \A r, s \in Request :
    ( /\ call[r].method = "Register" /\ code[r] = "OK"
      /\ users[userID[r]] # NoUser
      /\ call[s].method = "Login" /\ r \in seen[s]
      /\ call[s].email = call[r].email /\ call[s].password = call[r].password )
    => code[s] # "Unauthenticated"
=============================================================================
