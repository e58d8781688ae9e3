------------------------------- MODULE Sessions -------------------------------
(***************************************************************************)
(* Accounts, JWT sessions and API keys (internal/auth): how a request gets *)
(* from its bearer credential to the user its handler works for, and the   *)
(* handlers of AuthService.                                                *)
(*                                                                         *)
(* A JWT is known to nobody but its holder; what it is good for is decided *)
(* by its claims and the clock alone.  An API key is a row of              *)
(* user_api_keys, found by the hash of its secret; between finding it and  *)
(* the work of the handler the row may be revoked.  Requests run           *)
(* concurrently; a handler that stops for good between two calls is one    *)
(* whose replica died.                                                     *)
(***************************************************************************)
EXTENDS Access, Integers

CONSTANTS
  Request,
  Call,        \* what requests may ask for, a subset of CallType
  UserId, KeyId,
  Account,     \* the table users to begin with: accounts registered earlier
  NoUser, NoKey, NoCredential,
  Junk,        \* any credential the service has not issued
  Unissued,    \* what clients send besides the credentials they were issued
  RawEmail,    \* emails as clients send them
  TrimEmail,   \* strings.TrimSpace on RawEmail
  Password,    \* "" included
  RawScope,    \* scopes as clients send them
  TrimScope,   \* strings.TrimSpace on RawScope
  Days,        \* values of expires_in_days
  DefaultDays, MaxDays, \* 365 and 3650
  Never,       \* expires_at is NULL
  AccessTokenExpiry, RefreshTokenExpiry,
  MaxTime      \* bound on the clock

\* blankName tells whether the name sent is "" after strings.TrimSpace.  Scopes
\* are a set: a scope sent twice in one spelling is refused like one sent in two.
CallType == [method : Method, email : RawEmail, password : Password,
             blankName : BOOLEAN, scopes : SUBSET RawScope, days : Days,
             id : KeyId \cup {NoKey}]

UserRow == [email : RawEmail, password : Password]

\* What a request that is not sent yet asks for.
NoCall == [method |-> "none"]

KeyRow == [user : UserId, scopes : SUBSET RawScope, expiresAt : Nat \cup {Never}]

\* The claims of a signed token that anything depends on.
Token == [type : {"access", "refresh"}, user : UserId, exp : Nat]

Credential == Token \cup KeyId \cup {NoCredential, Junk}

ASSUME SessionsAssumption ==
  /\ Call \subseteq CallType
  /\ NoUser \notin UserRow /\ NoUser \notin UserId
  /\ NoKey \notin KeyRow /\ NoKey \notin KeyId
  /\ Account \in [UserId -> UserRow \cup {NoUser}]
  /\ \A u, v \in UserId : u # v /\ Account[u] # NoUser /\ Account[v] # NoUser
       => Account[u].email # Account[v].email
  /\ \A u \in UserId : Account[u] # NoUser
       => TrimEmail[Account[u].email] = Account[u].email
  /\ NoCredential \notin Token \cup KeyId /\ Junk \notin Token \cup KeyId
  /\ Token \cap KeyId = {}
  /\ Unissued \subseteq {NoCredential, Junk}
  /\ TrimEmail \in [RawEmail -> RawEmail]
  /\ \A e \in RawEmail : TrimEmail[TrimEmail[e]] = TrimEmail[e]
  /\ ValidScopes \subseteq RawScope
  /\ TrimScope \in [RawScope -> RawScope]
  /\ \A s \in ValidScopes : TrimScope[s] = s
  /\ Days \subseteq Int
  /\ DefaultDays \in Nat /\ MaxDays \in Nat
  /\ Never \notin Nat
  /\ AccessTokenExpiry \in Nat /\ RefreshTokenExpiry \in Nat
  /\ MaxTime \in Nat

VARIABLES
  users,    \* table users
  joined,   \* every user id gen_random_uuid() has returned so far
  keys,     \* table user_api_keys
  lastUsed, \* its column last_used_at, 0 if NULL
  tokens,   \* tokens in the hands of clients
  secrets,  \* keys whose secret is in the hands of a client
  now,
  pc, call, cred,
  userID,   \* the user a handler works for
  scopes,   \* of the key LookupAPIKey found
  code,
  \* The following are there for the properties only.
  minted,   \* the rows of user_api_keys as they were inserted
  sentAt,   \* when a request was sent
  seen,     \* requests that had been answered OK by then
  signedAt  \* when a Register or Login was answered with tokens, 0 if not

tables == <<users, joined, keys, lastUsed, minted>>
client == <<tokens, secrets>>
request == <<call, cred, sentAt, seen>>
vars == <<tables, client, request, now, pc, userID, scopes, code, signedAt>>

Step == {"authenticate", "touch", "handler", "issue"}

Code == {"none", "OK", "Unauthenticated", "InvalidArgument", "NotFound",
         "PermissionDenied", "AlreadyExists", "Internal"}

Init ==
  /\ users = Account
  /\ joined = {u \in UserId : Account[u] # NoUser}
  /\ keys = [k \in KeyId |-> NoKey]
  /\ lastUsed = [k \in KeyId |-> 0]
  /\ minted = keys
  /\ tokens = {}
  /\ secrets = {}
  /\ now = 1
  /\ pc = [r \in Request |-> "idle"]
  /\ call = [r \in Request |-> NoCall]
  /\ cred = [r \in Request |-> NoCredential]
  /\ userID = [r \in Request |-> NoUser]
  /\ scopes = [r \in Request |-> {}]
  /\ code = [r \in Request |-> "none"]
  /\ sentAt = [r \in Request |-> 0]
  /\ seen = [r \in Request |-> {}]
  /\ signedAt = [r \in Request |-> 0]

-----------------------------------------------------------------------------
(* How a request goes on *)

Goto(r, step) ==
  /\ pc' = [pc EXCEPT ![r] = step]
  /\ UNCHANGED code

Reply(r, c) ==
  /\ pc' = [pc EXCEPT ![r] = "done"]
  /\ code' = [code EXCEPT ![r] = c]

\* Every scope is valid and none is there twice, once trimmed.
ScopesAccepted(scs) ==
  /\ scs # {}
  /\ \A s \in scs : TrimScope[s] \in ValidScopes
  /\ \A s, t \in scs : s # t => TrimScope[s] # TrimScope[t]

\* With a bug: any number of days that is not too large is accepted.
DaysAccepted_Negative(days) == days <= MaxDays

DaysAccepted(days) == days \in {-1, 0} \cup 1 .. MaxDays

\* What the handlers look at before anything else.
Invalid(c) ==
  \/ /\ c.method = "Register"
     /\ TrimEmail[c.email] = "" \/ c.password = "" \/ c.blankName
  \/ c.method = "Login" /\ (c.email = "" \/ c.password = "")
  \/ c.method = "UpdateProfile" /\ c.blankName
  \/ /\ c.method = "CreateUserApiKey"
     /\ c.blankName \/ ~ ScopesAccepted(c.scopes) \/ ~ DaysAccepted(c.days)
  \/ c.method = "RevokeUserApiKey" /\ c.id = NoKey

Enter(r, c) == IF Invalid(c) THEN Reply(r, "InvalidArgument")
                             ELSE Goto(r, "handler")

-----------------------------------------------------------------------------
(* The interceptor *)

\* What a client may send along: a credential the service has issued, none, or
\* something else.
Presentable(method) ==
  IF method \in {"Register", "Login", "HealthCheck"} THEN {NoCredential}
  ELSE tokens \cup secrets \cup Unissued

Send(r) ==
  /\ pc[r] = "idle"
  /\ \E c \in Call :
       /\ call' = [call EXCEPT ![r] = c]
       /\ \E given \in Presentable(c.method) : cred' = [cred EXCEPT ![r] = given]
       /\ IF c.method \in PublicMethods THEN Enter(r, c) ELSE Goto(r, "authenticate")
  /\ sentAt' = [sentAt EXCEPT ![r] = now]
  /\ seen' = [seen EXCEPT ![r] = {q \in Request : code[q] = "OK"}]
  /\ UNCHANGED <<tables, client, now, userID, scopes, signedAt>>

\* enforceAccess, and then the handler.
Admit(r, fullAccess, scs) ==
  IF EnforceAccess(call[r].method, fullAccess, scs) THEN Enter(r, call[r])
                                                    ELSE Reply(r, "PermissionDenied")

\* ValidateAccessToken, ValidateRefreshToken.
Valid(token, type) == token \in tokens /\ token.type = type /\ now < token.exp

\* authenticate with what is not an API key.
AuthenticateJWT(r) ==
  /\ pc[r] = "authenticate" /\ cred[r] \notin KeyId
  /\ IF Valid(cred[r], "access")
     THEN /\ userID' = [userID EXCEPT ![r] = cred[r].user]
          /\ Admit(r, TRUE, {})
     ELSE Reply(r, "Unauthenticated") /\ UNCHANGED userID
  /\ UNCHANGED <<tables, client, request, now, scopes, signedAt>>

Expired(row) == row.expiresAt \in Nat /\ row.expiresAt <= now

\* With a bug: expires_at is left out of the query.
LookupAPIKey_Expired(r) ==
  /\ pc[r] = "authenticate" /\ cred[r] \in KeyId
  /\ IF keys[cred[r]] # NoKey
     THEN /\ userID' = [userID EXCEPT ![r] = keys[cred[r]].user]
          /\ scopes' = [scopes EXCEPT ![r] = keys[cred[r]].scopes]
          /\ Goto(r, "touch")
     ELSE Reply(r, "Unauthenticated") /\ UNCHANGED <<userID, scopes>>
  /\ UNCHANGED <<tables, client, request, now, signedAt>>

\* The SELECT of LookupAPIKey; its errors are answered like no row.
LookupAPIKey(r) ==
  /\ pc[r] = "authenticate" /\ cred[r] \in KeyId
  /\ \/ /\ keys[cred[r]] # NoKey /\ ~ Expired(keys[cred[r]])
        /\ userID' = [userID EXCEPT ![r] = keys[cred[r]].user]
        /\ scopes' = [scopes EXCEPT ![r] = keys[cred[r]].scopes]
        /\ Goto(r, "touch")
     \/ Reply(r, "Unauthenticated") /\ UNCHANGED <<userID, scopes>>
  /\ UNCHANGED <<tables, client, request, now, signedAt>>

\* With a bug: the row is written back whole, as it was looked up.
Touch_WholeRow(r) ==
  /\ pc[r] = "touch"
  /\ keys' = [keys EXCEPT ![cred[r]] = minted[cred[r]]]
  /\ lastUsed' = [lastUsed EXCEPT ![cred[r]] = now]
  /\ Admit(r, FALSE, scopes[r])
  /\ UNCHANGED <<users, joined, minted, client, request, now, userID, scopes, signedAt>>

\* Its UPDATE of last_used_at, errors ignored.
Touch(r) ==
  /\ pc[r] = "touch"
  /\ \/ keys[cred[r]] # NoKey /\ lastUsed' = [lastUsed EXCEPT ![cred[r]] = now]
     \/ UNCHANGED lastUsed
  /\ Admit(r, FALSE, scopes[r])
  /\ UNCHANGED <<users, joined, keys, minted, client, request, now, userID, scopes,
                 signedAt>>

-----------------------------------------------------------------------------
(* The handlers of AuthService.  A statement may fail, or take effect and lose *)
(* its answer; either is answered Internal.                                    *)

Handles(r, method) == pc[r] = "handler" /\ call[r].method = method

\* The statement the handler is at fails.
Fails(r) ==
  /\ pc[r] = "handler" /\ call[r].method \notin {"RefreshToken", "HealthCheck"}
  /\ Reply(r, "Internal")
  /\ UNCHANGED <<tables, client, request, now, userID, scopes, signedAt>>

EmailTaken(email) == \E u \in UserId : users[u] # NoUser /\ users[u].email = email

\* With a bug: the email is stored as sent.
RegisteredEmail_AsSent(c) == c.email

RegisteredEmail(c) == TrimEmail[c.email]

\* INSERT INTO users ... RETURNING id.
Register(r) ==
  LET email == RegisteredEmail(call[r])
      Insert(u) ==
        /\ joined' = joined \cup {u}
        /\ users' = [users EXCEPT ![u] = [email |-> email, password |-> call[r].password]]
  IN
  /\ Handles(r, "Register")
  /\ \/ /\ EmailTaken(email)
        /\ Reply(r, "AlreadyExists")
        /\ UNCHANGED <<users, joined, userID>>
     \/ /\ ~ EmailTaken(email)
        /\ \E u \in UserId \ joined :
             /\ Insert(u)
             /\ \/ userID' = [userID EXCEPT ![r] = u] /\ Goto(r, "issue")
                \/ UNCHANGED userID /\ Reply(r, "Internal")
  /\ UNCHANGED <<keys, lastUsed, minted, client, request, now, scopes, signedAt>>

\* SELECT ... WHERE email = $1 and the comparison of the password.
Login(r) ==
  LET Matches(u) == /\ users[u] # NoUser
                    /\ users[u].email = call[r].email
                    /\ users[u].password = call[r].password
  IN
  /\ Handles(r, "Login")
  /\ \/ \E u \in UserId : /\ Matches(u)
                          /\ userID' = [userID EXCEPT ![r] = u]
                          /\ Goto(r, "issue")
     \/ /\ \A u \in UserId : ~ Matches(u)
        /\ Reply(r, "Unauthenticated")
        /\ UNCHANGED userID
  /\ UNCHANGED <<tables, client, request, now, scopes, signedAt>>

AccessToken(u) == [type |-> "access", user |-> u, exp |-> now + AccessTokenExpiry]
NewRefreshToken(u) == [type |-> "refresh", user |-> u, exp |-> now + RefreshTokenExpiry]

\* The tokens of Register and Login, made after created_at was read.
Issue(r) ==
  /\ pc[r] = "issue"
  /\ tokens' = tokens \cup {AccessToken(userID[r]), NewRefreshToken(userID[r])}
  /\ signedAt' = [signedAt EXCEPT ![r] = now]
  /\ Reply(r, "OK")
  /\ UNCHANGED <<tables, secrets, request, now, userID, scopes>>

\* With a bug: a refresh also renews the refresh token.
RefreshToken_Sliding(r) ==
  /\ Handles(r, "RefreshToken")
  /\ IF Valid(cred[r], "refresh")
     THEN /\ tokens' = tokens \cup {AccessToken(cred[r].user), NewRefreshToken(cred[r].user)}
          /\ Reply(r, "OK")
     ELSE UNCHANGED tokens /\ Reply(r, "Unauthenticated")
  /\ UNCHANGED <<tables, secrets, request, now, userID, scopes, signedAt>>

\* An access token for a refresh token, which comes in the body of the request;
\* the tables are not looked at.
RefreshToken(r) ==
  /\ Handles(r, "RefreshToken")
  /\ IF Valid(cred[r], "refresh")
     THEN /\ tokens' = tokens \cup {AccessToken(cred[r].user)}
          /\ Reply(r, "OK")
     ELSE /\ UNCHANGED tokens
          /\ Reply(r, IF cred[r] = NoCredential THEN "InvalidArgument" ELSE "Unauthenticated")
  /\ UNCHANGED <<tables, secrets, request, now, userID, scopes, signedAt>>

\* GetMe and UpdateProfile, whose UPDATE changes no more than the name.
Profile(r) ==
  /\ Handles(r, "GetMe") \/ Handles(r, "UpdateProfile")
  /\ Reply(r, IF users[userID[r]] # NoUser THEN "OK" ELSE "NotFound")
  /\ UNCHANGED <<tables, client, request, now, userID, scopes, signedAt>>

ExpiresAt(days) ==
  IF days = -1 THEN Never ELSE now + (IF days = 0 THEN DefaultDays ELSE days)

\* INSERT INTO user_api_keys, the scopes as they were sent.  The user must exist.
CreateUserApiKey(r) ==
  LET row == [user |-> userID[r], scopes |-> call[r].scopes,
              expiresAt |-> ExpiresAt(call[r].days)]
  IN
  /\ Handles(r, "CreateUserApiKey")
  /\ users[userID[r]] # NoUser
  /\ \E k \in KeyId :
       /\ minted[k] = NoKey
       /\ minted' = [minted EXCEPT ![k] = row]
       /\ keys' = [keys EXCEPT ![k] = row]
       /\ \/ secrets' = secrets \cup {k} /\ Reply(r, "OK")
          \/ UNCHANGED secrets /\ Reply(r, "Internal")
  /\ UNCHANGED <<users, joined, lastUsed, tokens, request, now, userID, scopes, signedAt>>

\* With a bug: the user is left out of the WHERE.
RevokeUserApiKey_AnyUser(r) ==
  /\ Handles(r, "RevokeUserApiKey")
  /\ keys' = [keys EXCEPT ![call[r].id] = NoKey]
  /\ Reply(r, IF keys[call[r].id] # NoKey THEN "OK" ELSE "NotFound")
  /\ UNCHANGED <<users, joined, lastUsed, minted, client, request, now, userID, scopes, signedAt>>

\* DELETE FROM user_api_keys WHERE id = $1 AND user_id = $2.
RevokeUserApiKey(r) ==
  LET key  == call[r].id
      mine == keys[key] # NoKey /\ keys[key].user = userID[r]
  IN
  /\ Handles(r, "RevokeUserApiKey")
  /\ \/ /\ mine
        /\ keys' = [keys EXCEPT ![key] = NoKey]
        /\ Reply(r, "OK") \/ Reply(r, "Internal")
     \/ ~ mine /\ UNCHANGED keys /\ Reply(r, "NotFound")
  /\ UNCHANGED <<users, joined, lastUsed, minted, client, request, now, userID, scopes, signedAt>>

\* ListUserApiKeys and HealthCheck, which read, and every method of the other
\* services, whose handlers work for userID from here on.
Serve(r) ==
  /\ pc[r] = "handler"
  /\ call[r].method \in ScopedMethods \cup {"ListUserApiKeys", "HealthCheck"}
  /\ Reply(r, "OK")
  /\ UNCHANGED <<tables, client, request, now, userID, scopes, signedAt>>

-----------------------------------------------------------------------------
(* The environment *)

Tick ==
  /\ now < MaxTime
  /\ now' = now + 1
  /\ UNCHANGED <<tables, client, request, pc, userID, scopes, code, signedAt>>

\* Operators delete an account in SQL, its keys with it (ON DELETE CASCADE).
RemoveUser(u) ==
  /\ users[u] # NoUser
  /\ users' = [users EXCEPT ![u] = NoUser]
  /\ keys' = [k \in KeyId |-> IF keys[k] # NoKey /\ keys[k].user = u
                              THEN NoKey ELSE keys[k]]
  /\ UNCHANGED <<joined, lastUsed, minted, client, request, now, pc, userID, scopes,
                 code, signedAt>>

Handler(r) ==
  \/ Send(r) \/ AuthenticateJWT(r) \/ LookupAPIKey(r) \/ Touch(r) \/ Fails(r)
  \/ Register(r) \/ Login(r) \/ Issue(r) \/ RefreshToken(r) \/ Profile(r)
  \/ CreateUserApiKey(r) \/ RevokeUserApiKey(r) \/ Serve(r)

Next ==
  \/ \E r \in Request : Handler(r)
  \/ \E u \in UserId : RemoveUser(u)
  \/ Tick

Spec == Init /\ [][Next]_vars
=============================================================================
