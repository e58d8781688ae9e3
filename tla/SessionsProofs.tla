---------------------------- MODULE SessionsProofs ----------------------------
(***************************************************************************)
(* The properties of module SessionsProperties, proved for any number of   *)
(* requests, users and keys, and any life of tokens and keys.              *)
(***************************************************************************)
EXTENDS SessionsInvariants, TLAPS

-----------------------------------------------------------------------------
(* The tables of access *)

\* Every method is in exactly one of the three tables (middleware.go:20-25,
\* scopes.go:25-55): none is left out, none is both open and closed.
THEOREM MethodsSorted ==
  /\ Method = PublicMethods \cup JWTOnlyMethods \cup ScopedMethods
  /\ PublicMethods \cap JWTOnlyMethods = {}
  /\ PublicMethods \cap ScopedMethods = {}
  /\ JWTOnlyMethods \cap ScopedMethods = {}
<1>1. ScopedMethods = (BuildAPI \ {"HealthCheck"}) \cup OrganizationService
                        \cup TemplateService
  BY DEF ScopedMethods, MethodRequiredScope, BuildAPI, OrganizationService, TemplateService
<1> QED
  BY <1>1 DEF Method, PublicMethods, JWTOnlyMethods, AuthService, BuildAPI,
              OrganizationService, TemplateService

-----------------------------------------------------------------------------
(* Calls and how requests move *)

LEMMA CallFields ==
  ASSUME NEW c \in Call
  PROVE  /\ c.method \in Method /\ c.email \in RawEmail /\ c.password \in Password
         /\ c.scopes \in SUBSET RawScope /\ c.days \in Int
         /\ c.id \in KeyId \cup {NoKey}
<1>1. c \in CallType /\ Days \subseteq Int
  BY SessionsAssumption
<1> QED
  BY <1>1 DEF CallType

\* All there is about a request but where it is.
SameRequest(q) ==
  /\ call'[q] = call[q] /\ cred'[q] = cred[q] /\ sentAt'[q] = sentAt[q]
  /\ seen'[q] = seen[q]

Same(q) ==
  /\ SameRequest(q)
  /\ pc'[q] = pc[q] /\ code'[q] = code[q]
  /\ userID'[q] = userID[q] /\ scopes'[q] = scopes[q] /\ signedAt'[q] = signedAt[q]

LEMMA MoveEffect ==
  ASSUME TypeOK, NEW r \in Request,
         \/ \E s \in Step : Goto(r, s)
         \/ \E c \in Code : Reply(r, c)
  PROVE  \A q \in Request : q # r => pc'[q] = pc[q] /\ code'[q] = code[q]
BY DEF TypeOK, Goto, Reply

LEMMA EnterMoves ==
  ASSUME NEW r \in Request, NEW c, Enter(r, c)
  PROVE  \/ \E s \in Step : Goto(r, s)
         \/ \E d \in Code : Reply(r, d)
BY DEF Enter, Step, Code

LEMMA AdmitMoves ==
  ASSUME NEW r \in Request, NEW full, NEW scs, Admit(r, full, scs)
  PROVE  \/ \E s \in Step : Goto(r, s)
         \/ \E d \in Code : Reply(r, d)
BY EnterMoves DEF Admit, Code

\* A handler's step moves one request, which is not answered yet.
LEMMA HandlerMoves ==
  ASSUME NEW r \in Request, Handler(r)
  PROVE  /\ \/ \E s \in Step : Goto(r, s)
            \/ \E c \in Code : Reply(r, c)
         /\ pc[r] # "done"
         /\ now' = now
         /\ Send(r) \/ UNCHANGED request
<1> USE DEF Step, Code
<1>1. CASE Send(r)
  BY <1>1, EnterMoves DEF Send
<1>2. CASE AuthenticateJWT(r)
  BY <1>2, AdmitMoves DEF AuthenticateJWT
<1>3. CASE LookupAPIKey(r)
  BY <1>3 DEF LookupAPIKey
<1>4. CASE Touch(r)
  BY <1>4, AdmitMoves DEF Touch, client
<1>5. CASE Fails(r)
  BY <1>5 DEF Fails
<1>6. CASE Register(r)
  BY <1>6 DEF Register, Handles
<1>7. CASE Login(r)
  BY <1>7 DEF Login, Handles
<1>8. CASE Issue(r)
  BY <1>8 DEF Issue
<1>9. CASE RefreshToken(r)
  BY <1>9 DEF RefreshToken, Handles
<1>10. CASE Profile(r)
  BY <1>10 DEF Profile, Handles
<1>11. CASE CreateUserApiKey(r)
  BY <1>11 DEF CreateUserApiKey, Handles
<1>12. CASE RevokeUserApiKey(r)
  BY <1>12 DEF RevokeUserApiKey, Handles
<1>13. CASE Serve(r)
  BY <1>13 DEF Serve
<1> QED
  BY <1>1, <1>2, <1>3, <1>4, <1>5, <1>6, <1>7, <1>8, <1>9, <1>10, <1>11, <1>12,
     <1>13 DEF Handler

LEMMA HandlerFrame ==
  ASSUME TypeOK, NEW r \in Request, Handler(r)
  PROVE  /\ \A q \in Request : q # r => Same(q)
         /\ pc[r] # "idle" => SameRequest(r)
<1>1. \A q \in Request : q # r => pc'[q] = pc[q] /\ code'[q] = code[q]
  BY HandlerMoves, MoveEffect
<1>2. \A q \in Request : q # r => SameRequest(q)
  BY HandlerMoves DEF Send, request, SameRequest, TypeOK
<1>3. pc[r] # "idle" => SameRequest(r)
  BY HandlerMoves DEF Send, request, SameRequest
<1>4. \A q \in Request : q # r =>
        userID'[q] = userID[q] /\ scopes'[q] = scopes[q] /\ signedAt'[q] = signedAt[q]
  BY DEF Handler, Send, AuthenticateJWT, LookupAPIKey, Touch, Fails, Register, Login,
         Issue, RefreshToken, Profile, CreateUserApiKey, RevokeUserApiKey, Serve, TypeOK
<1> QED
  BY <1>1, <1>2, <1>3, <1>4 DEF Same

\* No token is taken back, and no row forgotten.
LEMMA HandlerKeeps ==
  ASSUME TypeOK, NEW r \in Request, Handler(r)
  PROVE  /\ tokens \subseteq tokens'
         /\ \A k \in KeyId : minted[k] # NoKey => minted'[k] = minted[k]
<1>1. tokens \subseteq tokens'
  BY DEF Handler, Send, AuthenticateJWT, LookupAPIKey, Touch, Fails, Register, Login,
         Issue, RefreshToken, Profile, CreateUserApiKey, RevokeUserApiKey, Serve, client
<1>2. CASE CreateUserApiKey(r)
  BY <1>1, <1>2 DEF CreateUserApiKey, TypeOK
<1>3. CASE ~ CreateUserApiKey(r)
  BY <1>1, <1>3 DEF Handler, Send, AuthenticateJWT, LookupAPIKey, Touch, Fails, Register,
         Login, Issue, RefreshToken, Profile, RevokeUserApiKey, Serve, tables
<1> QED
  BY <1>2, <1>3

-----------------------------------------------------------------------------
(* Type correctness *)

LEMMA TypeInit == Init => TypeOK
<1> SUFFICES ASSUME Init PROVE TypeOK
  OBVIOUS
<1>1. users \in [UserId -> UserRow \cup {NoUser}] /\ joined \subseteq UserId
  BY SessionsAssumption DEF Init
<1> QED
  BY <1>1 DEF Init, TypeOK, Credential, Code

LEMMA MoveType ==
  ASSUME TypeOK, NEW r \in Request,
         \/ \E s \in Step : Goto(r, s)
         \/ \E c \in Code : Reply(r, c)
  PROVE  /\ pc' \in [Request -> Step \cup {"idle", "done"}]
         /\ code' \in [Request -> Code]
BY DEF TypeOK, Goto, Reply

\* The row of a new key, for the user of the request.
LEMMA NewKeyType ==
  ASSUME NEW c \in Call, ~ Invalid(c), c.method = "CreateUserApiKey", now \in Nat,
         NEW u \in UserId
  PROVE  [user |-> u, scopes |-> c.scopes, expiresAt |-> ExpiresAt(c.days)] \in KeyRow
<1>1. c.scopes \in SUBSET RawScope /\ c.days \in {-1, 0} \cup 1 .. MaxDays
  BY CallFields DEF Invalid, DaysAccepted
<1>2. ExpiresAt(c.days) \in Nat \cup {Never}
  BY <1>1, SessionsAssumption DEF ExpiresAt
<1> QED
  BY <1>1, <1>2 DEF KeyRow

LEMMA TokenTypes ==
  ASSUME NEW u \in UserId, now \in Nat
  PROVE  AccessToken(u) \in Token /\ NewRefreshToken(u) \in Token
BY SessionsAssumption DEF AccessToken, NewRefreshToken, Token

\* What a request the interceptor let through has for a user.
LEMMA AdmittedUser ==
  ASSUME TypeOK, AdmittedRightly, NEW r \in Request, Admitted(r)
  PROVE  userID[r] \in UserId
<1>1. CASE HeldToken(r)
  BY <1>1 DEF HeldToken, TypeOK, Token
<1>2. CASE FoundKey(r)
  BY <1>2 DEF FoundKey, TypeOK, KeyRow
<1> QED
  BY <1>1, <1>2 DEF AdmittedRightly

LEMMA HandlerType ==
  ASSUME IInv, NEW r \in Request, Handler(r)
  PROVE  TypeOK'
<1>1. TypeOK /\ Progress
  BY DEF IInv
<1>2. /\ pc' \in [Request -> Step \cup {"idle", "done"}]
      /\ code' \in [Request -> Code]
  BY <1>1, HandlerMoves, MoveType
<1>3. /\ call' \in [Request -> Call \cup {NoCall}]
      /\ cred' \in [Request -> Credential]
      /\ sentAt' \in [Request -> Nat]
      /\ seen' \in [Request -> SUBSET Request]
  <2>1. CASE Send(r)
    <3>1. \A m : Presentable(m) \subseteq Credential
      BY <1>1, SessionsAssumption DEF Presentable, Credential, TypeOK
    <3> QED
      BY <1>1, <2>1, <3>1 DEF Send, TypeOK
  <2>2. CASE UNCHANGED request
    BY <1>1, <2>2 DEF request, TypeOK
  <2> QED
    BY <2>1, <2>2, HandlerMoves
<1>4. now' \in Nat \ {0}
  BY <1>1, HandlerMoves DEF TypeOK
<1>5. signedAt' \in [Request -> Nat]
  BY <1>1 DEF Handler, Send, AuthenticateJWT, LookupAPIKey, Touch, Fails, Register, Login,
         Issue, RefreshToken, Profile, CreateUserApiKey, RevokeUserApiKey, Serve, TypeOK
<1>6. /\ users' \in [UserId -> UserRow \cup {NoUser}]
      /\ joined' \subseteq UserId
  <2>1. CASE Register(r)
    <3>1. call[r] \in Call
      BY <1>1, <2>1 DEF Register, Handles, Progress
    <3>2. [email |-> RegisteredEmail(call[r]), password |-> call[r].password] \in UserRow
      BY <3>1, CallFields, SessionsAssumption DEF RegisteredEmail, UserRow
    <3> QED
      BY <1>1, <2>1, <3>2 DEF Register, TypeOK
  <2>2. CASE ~ Register(r)
    BY <1>1, <2>2 DEF Handler, Send, AuthenticateJWT, LookupAPIKey, Touch, Fails, Login,
         Issue, RefreshToken, Profile, CreateUserApiKey, RevokeUserApiKey, Serve, TypeOK,
         tables
  <2> QED
    BY <2>1, <2>2
<1>7. /\ keys' \in [KeyId -> KeyRow \cup {NoKey}]
      /\ minted' \in [KeyId -> KeyRow \cup {NoKey}]
      /\ secrets' \subseteq KeyId
  <2>1. CASE CreateUserApiKey(r)
    <3>1. call[r] \in Call /\ ~ Invalid(call[r])
      BY <1>1, <2>1 DEF CreateUserApiKey, Handles, Progress
    <3>2. userID[r] \in UserId
      <4>1. Admitted(r)
        BY <2>1 DEF CreateUserApiKey, Handles, Admitted, PublicMethods
      <4> QED
        BY <4>1, AdmittedUser DEF IInv
    <3>3. [user |-> userID[r], scopes |-> call[r].scopes,
           expiresAt |-> ExpiresAt(call[r].days)] \in KeyRow
      BY <1>1, <2>1, <3>1, <3>2, NewKeyType DEF CreateUserApiKey, Handles, TypeOK
    <3> QED
      BY <1>1, <2>1, <3>3 DEF CreateUserApiKey, TypeOK
  <2>2. CASE RevokeUserApiKey(r)
    BY <1>1, <2>2 DEF RevokeUserApiKey, TypeOK, client
  <2>3. CASE ~ CreateUserApiKey(r) /\ ~ RevokeUserApiKey(r)
    BY <1>1, <2>3 DEF Handler, Send, AuthenticateJWT, LookupAPIKey, Touch, Fails,
         Register, Login, Issue, RefreshToken, Profile, Serve, TypeOK, tables, client
  <2> QED
    BY <2>1, <2>2, <2>3
<1>8. lastUsed' \in [KeyId -> Nat]
  BY <1>1 DEF Handler, Send, AuthenticateJWT, LookupAPIKey, Touch, Fails, Register, Login,
         Issue, RefreshToken, Profile, CreateUserApiKey, RevokeUserApiKey, Serve, TypeOK,
         tables
<1>9. tokens' \subseteq Token
  <2>1. CASE Issue(r)
    BY <1>1, <2>1, TokenTypes DEF Issue, Progress, TypeOK
  <2>2. CASE RefreshToken(r)
    <3>1. Valid(cred[r], "refresh") => cred[r].user \in UserId
      BY <1>1 DEF Valid, TypeOK, Token
    <3> QED
      BY <1>1, <2>2, <3>1, TokenTypes DEF RefreshToken, TypeOK
  <2>3. CASE ~ Issue(r) /\ ~ RefreshToken(r)
    BY <1>1, <2>3 DEF Handler, Send, AuthenticateJWT, LookupAPIKey, Touch, Fails,
         Register, Login, Profile, CreateUserApiKey, RevokeUserApiKey, Serve, TypeOK, client
  <2> QED
    BY <2>1, <2>2, <2>3
<1>10. userID' \in [Request -> UserId \cup {NoUser}]
  <2>1. CASE AuthenticateJWT(r)
    <3>1. Valid(cred[r], "access") => cred[r].user \in UserId
      BY <1>1 DEF Valid, TypeOK, Token
    <3> QED
      BY <1>1, <2>1, <3>1 DEF AuthenticateJWT, TypeOK
  <2>2. CASE LookupAPIKey(r)
    BY <1>1, <2>2 DEF LookupAPIKey, TypeOK, KeyRow
  <2>3. CASE ~ AuthenticateJWT(r) /\ ~ LookupAPIKey(r)
    BY <1>1, <2>3 DEF Handler, Send, Touch, Fails, Register, Login, Issue, RefreshToken,
         Profile, CreateUserApiKey, RevokeUserApiKey, Serve, TypeOK
  <2> QED
    BY <2>1, <2>2, <2>3
<1>11. scopes' \in [Request -> SUBSET RawScope]
  BY <1>1 DEF Handler, Send, AuthenticateJWT, LookupAPIKey, Touch, Fails, Register, Login,
         Issue, RefreshToken, Profile, CreateUserApiKey, RevokeUserApiKey, Serve, TypeOK,
         KeyRow
<1> QED
  BY <1>2, <1>3, <1>4, <1>5, <1>6, <1>7, <1>8, <1>9, <1>10, <1>11 DEF TypeOK

-----------------------------------------------------------------------------
(* Where requests are *)

\* Where the moves leave the request itself.
LEMMA MoveOwn ==
  ASSUME TypeOK, NEW r \in Request
  PROVE  /\ \A s \in Step : Goto(r, s) => pc'[r] = s /\ code'[r] = code[r]
         /\ \A c \in Code : Reply(r, c) => pc'[r] = "done" /\ code'[r] = c
BY DEF TypeOK, Goto, Reply

LEMMA EnterOwn ==
  ASSUME TypeOK, NEW r \in Request, NEW c, Enter(r, c)
  PROVE  \/ pc'[r] = "handler" /\ code'[r] = code[r] /\ ~ Invalid(c)
         \/ pc'[r] = "done" /\ code'[r] = "InvalidArgument"
BY DEF TypeOK, Goto, Reply, Enter

LEMMA AdmitOwn ==
  ASSUME TypeOK, NEW r \in Request, NEW full, NEW scs, Admit(r, full, scs)
  PROVE  \/ /\ pc'[r] = "handler" /\ code'[r] = code[r] /\ ~ Invalid(call[r])
            /\ EnforceAccess(call[r].method, full, scs)
         \/ pc'[r] = "done" /\ code'[r] \in {"InvalidArgument", "PermissionDenied"}
BY EnterOwn DEF Admit, Reply, TypeOK

\* Past the interceptor a request stays at its handler, or is answered.
LEMMA HandlerOwn ==
  ASSUME TypeOK, Progress, NEW r \in Request, Handler(r)
  PROVE  \/ Send(r) \/ AuthenticateJWT(r) \/ LookupAPIKey(r) \/ Touch(r)
         \/ /\ pc[r] = "handler"
            /\ pc'[r] = "issue" /\ code'[r] = code[r]
            /\ call[r].method \in {"Register", "Login"} /\ userID'[r] \in UserId
         \/ /\ pc[r] = "handler" \/ (pc[r] = "issue" /\ Issue(r))
            /\ pc'[r] = "done" /\ code'[r] \in Code \ {"none"}
            /\ userID'[r] = userID[r] /\ scopes'[r] = scopes[r]
<1> USE DEF Handles
<1>1. CASE Fails(r)
  BY <1>1, MoveOwn DEF Fails, Code
<1>2. CASE Register(r)
  BY <1>2, MoveOwn DEF Register, Code, Step, TypeOK
<1>3. CASE Login(r)
  BY <1>3, MoveOwn DEF Login, Code, Step, TypeOK
<1>4. CASE Issue(r)
  BY <1>4, MoveOwn DEF Issue, Code
<1>5. CASE RefreshToken(r)
  BY <1>5, MoveOwn DEF RefreshToken, Code
<1>6. CASE Profile(r)
  BY <1>6, MoveOwn DEF Profile, Code
<1>7. CASE CreateUserApiKey(r)
  BY <1>7, MoveOwn DEF CreateUserApiKey, Code
<1>8. CASE RevokeUserApiKey(r)
  BY <1>8, MoveOwn DEF RevokeUserApiKey, Code
<1>9. CASE Serve(r)
  BY <1>9, MoveOwn DEF Serve, Code
<1> QED
  BY <1>1, <1>2, <1>3, <1>4, <1>5, <1>6, <1>7, <1>8, <1>9 DEF Handler

LEMMA HandlerProgress ==
  ASSUME TypeOK, Progress, NEW r \in Request, Handler(r)
  PROVE  Progress'
<1> DEFINE P(q) == /\ pc[q] # "idle" => call[q] \in Call
                   /\ pc[q] = "done" <=> code[q] # "none"
                   /\ pc[q] \in {"authenticate", "touch"} =>
                        call[q].method \notin PublicMethods
                   /\ pc[q] = "handler" => ~ Invalid(call[q])
                   /\ pc[q] = "issue" =>
                        call[q].method \in {"Register", "Login"} /\ userID[q] \in UserId
                   /\ sentAt[q] <= now
<1>1. \A q \in Request : P(q)
  BY DEF Progress
<1>2. \A q \in Request : q # r => P(q)'
  BY <1>1, HandlerFrame, HandlerMoves DEF Same, SameRequest
<1>3. P(r)'
  <2>1. CASE Send(r)
    <3>1. /\ call'[r] \in Call /\ sentAt'[r] = now /\ now' = now /\ pc[r] = "idle"
          /\ IF call'[r].method \in PublicMethods THEN Enter(r, call'[r])
                                                  ELSE Goto(r, "authenticate")
      BY <2>1 DEF Send, TypeOK
    <3>2. CASE call'[r].method \in PublicMethods
      BY <1>1, <3>1, <3>2, EnterOwn DEF TypeOK
    <3>3. CASE call'[r].method \notin PublicMethods
      BY <1>1, <3>1, <3>3, MoveOwn DEF TypeOK, Step
    <3> QED
      BY <3>2, <3>3
  <2>2. CASE AuthenticateJWT(r)
    <3>1. pc[r] = "authenticate" /\ SameRequest(r) /\ now' = now
      BY <2>2, HandlerFrame DEF AuthenticateJWT
    <3>2. \/ pc'[r] = "handler" /\ code'[r] = code[r] /\ ~ Invalid(call[r])
          \/ pc'[r] = "done" /\ code'[r] # "none"
      BY <2>2, AdmitOwn, MoveOwn DEF AuthenticateJWT, Code
    <3> QED
      BY <1>1, <3>1, <3>2 DEF SameRequest
  <2>3. CASE LookupAPIKey(r)
    <3>1. pc[r] = "authenticate" /\ SameRequest(r) /\ now' = now
      BY <2>3, HandlerFrame DEF LookupAPIKey
    <3>2. \/ pc'[r] = "touch" /\ code'[r] = code[r]
          \/ pc'[r] = "done" /\ code'[r] # "none"
      BY <2>3, MoveOwn DEF LookupAPIKey, Code, Step
    <3> QED
      BY <1>1, <3>1, <3>2 DEF SameRequest
  <2>4. CASE Touch(r)
    <3>1. pc[r] = "touch" /\ SameRequest(r) /\ now' = now
      BY <2>4, HandlerFrame DEF Touch
    <3>2. \/ pc'[r] = "handler" /\ code'[r] = code[r] /\ ~ Invalid(call[r])
          \/ pc'[r] = "done" /\ code'[r] # "none"
      BY <2>4, AdmitOwn DEF Touch
    <3> QED
      BY <1>1, <3>1, <3>2 DEF SameRequest
  <2>5. CASE pc[r] \in {"handler", "issue"}
    <3>1. SameRequest(r) /\ now' = now
      BY <2>5, HandlerFrame, HandlerMoves
    <3>2. \/ /\ pc'[r] = "issue" /\ code'[r] = code[r]
             /\ call[r].method \in {"Register", "Login"} /\ userID'[r] \in UserId
          \/ pc'[r] = "done" /\ code'[r] # "none"
      BY <2>5, HandlerOwn DEF Send, AuthenticateJWT, LookupAPIKey, Touch
    <3> QED
      BY <1>1, <2>5, <3>1, <3>2 DEF SameRequest
  <2> QED
    BY <2>1, <2>2, <2>3, <2>4, <2>5, HandlerOwn
<1>4. \A q \in Request : P(q)'
  BY <1>2, <1>3
<1> QED
  BY <1>4 DEF Progress

\* What was answered, was answered by then and with that.
LEMMA AnsweredStays ==
  ASSUME TypeOK, Progress, NEW r \in Request, Handler(r)
  PROVE  \A q \in Request : pc[q] = "done" \/ code[q] # "none" => q # r /\ Same(q)
BY HandlerFrame, HandlerMoves DEF Progress

LEMMA HandlerSeen ==
  ASSUME TypeOK, Progress, SeenAnswered, NEW r \in Request, Handler(r)
  PROVE  SeenAnswered'
<1> SUFFICES ASSUME NEW p \in Request, NEW q \in seen'[p]
             PROVE  code'[q] = "OK"
  BY DEF SeenAnswered
<1>1. q \in Request /\ code[q] = "OK"
  <2>1. CASE p = r /\ Send(r)
    BY <2>1 DEF Send, TypeOK
  <2>2. CASE p # r \/ UNCHANGED request
    BY <2>2, HandlerFrame DEF Same, SameRequest, SeenAnswered, TypeOK, request
  <2> QED
    BY <2>1, <2>2, HandlerMoves
<1> QED
  BY <1>1, AnsweredStays DEF Same

-----------------------------------------------------------------------------
(* What was shown to the interceptor stays on record *)

LEMMA RevokedStays ==
  ASSUME TypeOK, Progress, SeenAnswered, NEW r \in Request, Handler(r),
         NEW p \in Request, NEW q \in seen[p], NEW k
  PROVE  Revoked(q, k)' <=> Revoked(q, k)
<1>1. q \in Request /\ code[q] = "OK"
  BY DEF SeenAnswered, TypeOK
<1>2. Same(q)
  BY <1>1, AnsweredStays
<1> QED
  BY <1>2 DEF Same, SameRequest, Revoked

LEMMA FoundKeyStays ==
  ASSUME TypeOK, Progress, SeenAnswered, NEW r \in Request, Handler(r),
         NEW p \in Request, SameRequest(p), userID'[p] = userID[p],
         scopes'[p] = scopes[p], FoundKey(p)
  PROVE  FoundKey(p)' /\ minted'[cred'[p]] = minted[cred[p]]
<1>1. cred'[p] = cred[p] /\ seen'[p] = seen[p] /\ sentAt'[p] = sentAt[p]
  BY DEF SameRequest
<1>2. minted'[cred[p]] = minted[cred[p]]
  BY HandlerKeeps DEF FoundKey
<1>3. \A q \in seen[p] : ~ Revoked(q, cred[p])'
  <2> TAKE q \in seen[p]
  <2>1. ~ Revoked(q, cred[p])
    BY DEF FoundKey
  <2>2. Revoked(q, cred[p])' <=> (call'[q].method = "RevokeUserApiKey"
                                  /\ call'[q].id = cred[p] /\ code'[q] = "OK")
    BY <1>1 DEF Revoked
  <2>3. q \in Request /\ code[q] = "OK"
    BY DEF SeenAnswered, TypeOK
  <2>4. Same(q)
    BY <2>3, AnsweredStays
  <2> QED
    BY <2>1, <2>2, <2>4 DEF Same, SameRequest, Revoked
<1> QED
  BY <1>1, <1>2, <1>3 DEF FoundKey

LEMMA HeldTokenStays ==
  ASSUME TypeOK, NEW r \in Request, Handler(r),
         NEW p \in Request, SameRequest(p), userID'[p] = userID[p], HeldToken(p)
  PROVE  HeldToken(p)'
BY HandlerKeeps DEF HeldToken, SameRequest

LEMMA HandlerKeysFound ==
  ASSUME IInv, NEW r \in Request, Handler(r)
  PROVE  KeysFound'
<1>1. TypeOK /\ Progress /\ SeenAnswered /\ KeysFound /\ KeysFixed
  BY DEF IInv
<1> SUFFICES ASSUME NEW p \in Request, pc'[p] = "touch"
             PROVE  FoundKey(p)'
  BY DEF KeysFound
<1>2. CASE p # r
  BY <1>1, <1>2, HandlerFrame, FoundKeyStays DEF Same, SameRequest, KeysFound
<1>3. CASE p = r
  <2>1. LookupAPIKey(r)
    <3>1. ~ Send(r)
      BY <1>1, <1>3, EnterOwn, MoveOwn DEF Send, Step
    <3>2. ~ AuthenticateJWT(r)
      BY <1>1, <1>3, AdmitOwn, MoveOwn DEF AuthenticateJWT, Code
    <3>3. ~ Touch(r)
      BY <1>1, <1>3, AdmitOwn DEF Touch
    <3> QED
      BY <1>1, <1>3, <3>1, <3>2, <3>3, HandlerOwn
  <2>2. /\ keys[cred[r]] # NoKey /\ ~ Expired(keys[cred[r]]) /\ cred[r] \in KeyId
        /\ userID'[r] = keys[cred[r]].user /\ scopes'[r] = keys[cred[r]].scopes
        /\ UNCHANGED <<minted, cred, sentAt, seen, call>>
    BY <1>1, <1>3, <2>1, MoveOwn DEF LookupAPIKey, Code, TypeOK, tables, request
  <2>3. keys[cred[r]] = minted[cred[r]]
    BY <1>1, <2>2 DEF KeysFixed
  <2>4. minted[cred[r]].expiresAt \in Nat => sentAt[r] < minted[cred[r]].expiresAt
    BY <1>1, <2>2, <2>3 DEF Expired, Progress, TypeOK
  <2>5. \A q \in seen[r] : ~ (Revoked(q, cred[r])')
    <3> SUFFICES ASSUME NEW q \in seen[r]
                 PROVE  ~ (/\ call[q].method = "RevokeUserApiKey"
                           /\ call[q].id = cred[r] /\ code'[q] = "OK")
      BY <2>2 DEF Revoked
    <3>1. q \in Request /\ code[q] = "OK"
      BY <1>1 DEF SeenAnswered, TypeOK
    <3> QED
      BY <1>1, <2>2, <3>1 DEF Revoked, KeysFixed
  <2> QED
    BY <1>3, <2>2, <2>3, <2>4, <2>5 DEF FoundKey
<1> QED
  BY <1>2, <1>3

LEMMA HandlerAdmitted ==
  ASSUME IInv, NEW r \in Request, Handler(r)
  PROVE  AdmittedRightly'
<1>1. TypeOK /\ Progress /\ SeenAnswered /\ KeysFound /\ AdmittedRightly
  BY DEF IInv
<1> DEFINE ByKey(p) == /\ FoundKey(p)
                       /\ EnforceAccess(call[p].method, FALSE, minted[cred[p]].scopes)
<1>2. ASSUME NEW p \in Request, SameRequest(p), userID'[p] = userID[p],
             scopes'[p] = scopes[p], HeldToken(p) \/ ByKey(p)
      PROVE  HeldToken(p)' \/ ByKey(p)'
  BY <1>1, <1>2, FoundKeyStays, HeldTokenStays DEF SameRequest
<1> SUFFICES ASSUME NEW p \in Request, Admitted(p)'
             PROVE  HeldToken(p)' \/ ByKey(p)'
  BY DEF AdmittedRightly
<1>3. CASE p # r
  <2>1. Same(p)
    BY <1>1, <1>3, HandlerFrame
  <2>2. Admitted(p)
    BY <2>1 DEF Same, SameRequest, Admitted
  <2> QED
    BY <1>1, <1>2, <2>1, <2>2 DEF Same, AdmittedRightly
<1>4. CASE p = r
  <2>1. ~ Send(r)
    <3> SUFFICES ASSUME Send(r) PROVE FALSE
      OBVIOUS
    <3>1. call'[r].method \notin PublicMethods => Goto(r, "authenticate")
      BY <1>1 DEF Send, TypeOK
    <3>2. pc'[r] = "authenticate" /\ code'[r] = code[r] /\ code[r] = "none"
      BY <1>1, <1>4, <3>1, MoveOwn DEF Admitted, Step, Send, Progress
    <3> QED
      BY <1>4, <3>2 DEF Admitted
  <2>2. CASE AuthenticateJWT(r)
    <3>1. Valid(cred[r], "access") /\ userID'[r] = cred[r].user
      BY <1>1, <1>4, <2>2, MoveOwn DEF AuthenticateJWT, Code, TypeOK, Admitted
    <3>2. /\ UNCHANGED <<tokens, cred, sentAt>>
          /\ sentAt[r] < cred[r].exp
      BY <1>1, <2>2, <3>1 DEF AuthenticateJWT, client, request, Valid, Progress, TypeOK,
           Token
    <3> QED
      BY <1>4, <3>1, <3>2 DEF HeldToken, Valid
  <2>3. CASE LookupAPIKey(r)
    BY <1>1, <1>4, <2>3, MoveOwn DEF LookupAPIKey, Code, Step, Admitted, Progress
  <2>4. CASE Touch(r)
    <3>1. FoundKey(r) /\ UNCHANGED <<userID, scopes>>
      BY <1>1, <2>4 DEF Touch, KeysFound
    <3>2. EnforceAccess(call[r].method, FALSE, scopes[r])
      BY <1>1, <1>4, <2>4, AdmitOwn DEF Touch, Admitted, Progress
    <3>3. SameRequest(r)
      BY <1>1, <2>4, HandlerFrame DEF Touch
    <3> QED
      BY <1>2, <1>4, <3>1, <3>2, <3>3 DEF FoundKey
  <2>5. CASE pc[r] \in {"handler", "issue"}
    <3>1. SameRequest(r)
      BY <1>1, <2>5, HandlerFrame
    <3>2. /\ pc[r] = "handler" /\ call[r].method \notin PublicMethods
          /\ userID'[r] = userID[r] /\ scopes'[r] = scopes[r]
      <4>1. call[r].method \notin PublicMethods
        BY <1>4, <3>1 DEF Admitted, SameRequest
      <4>2. call[r].method \notin {"Register", "Login"}
        BY <4>1 DEF PublicMethods
      <4> QED
        BY <1>1, <2>5, <4>1, <4>2, HandlerOwn DEF Send, AuthenticateJWT, LookupAPIKey,
             Touch, Progress
    <3>3. Admitted(r)
      BY <3>2 DEF Admitted
    <3> QED
      BY <1>1, <1>2, <1>4, <3>1, <3>2, <3>3 DEF AdmittedRightly
  <2> QED
    BY <1>1, <2>1, <2>2, <2>3, <2>4, <2>5, HandlerOwn
<1> QED
  BY <1>3, <1>4

-----------------------------------------------------------------------------
(* Keys and tokens *)

\* Only CreateUserApiKey and RevokeUserApiKey touch the rows of the keys.
LEMMA KeysUntouched ==
  ASSUME NEW r \in Request, Handler(r), ~ CreateUserApiKey(r), ~ RevokeUserApiKey(r)
  PROVE  UNCHANGED <<keys, minted>>
BY DEF Handler, Send, AuthenticateJWT, LookupAPIKey, Touch, Fails, Register, Login,
       Issue, RefreshToken, Profile, Serve, tables

\* A revocation is answered OK by RevokeUserApiKey alone.
LEMMA NewlyRevoked ==
  ASSUME TypeOK, Progress, NEW r \in Request, Handler(r), NEW q \in Request, NEW k,
         Revoked(q, k)'
  PROVE  Revoked(q, k) \/ (q = r /\ RevokeUserApiKey(r) /\ call[r].id = k)
<1>1. CASE q # r
  BY <1>1, HandlerFrame DEF Same, SameRequest, Revoked
<1>2. CASE q = r
  <2>1. CASE Send(r)
    <3>1. call'[r].method \notin PublicMethods
      BY <1>2 DEF Revoked, PublicMethods
    <3>2. Goto(r, "authenticate") /\ pc[r] = "idle"
      BY <2>1, <3>1 DEF Send, TypeOK
    <3> QED
      BY <1>2, <3>2, MoveOwn DEF Revoked, Progress, Step
  <2>2. CASE pc[r] # "idle"
    <3>1. SameRequest(r) /\ code'[r] = "OK" /\ call[r].method = "RevokeUserApiKey"
          /\ call[r].id = k
      BY <1>2, <2>2, HandlerFrame DEF Revoked, SameRequest
    <3>2. ~ AuthenticateJWT(r) /\ ~ Touch(r)
      BY <3>1, AdmitOwn, MoveOwn DEF AuthenticateJWT, Touch, Code, Progress
    <3>3. ~ LookupAPIKey(r) /\ ~ Fails(r)
      BY <3>1, MoveOwn DEF LookupAPIKey, Fails, Code, Step, Progress
    <3>4. ~ Issue(r)
      BY <3>1 DEF Issue, Progress
    <3>5. RevokeUserApiKey(r)
      BY <2>2, <3>1, <3>2, <3>3, <3>4 DEF Handler, Send, Register, Login, RefreshToken,
         Profile, CreateUserApiKey, Serve, Handles, ScopedMethods, MethodRequiredScope
    <3> QED
      BY <1>2, <3>1, <3>5
  <2> QED
    BY <2>1, <2>2 DEF Handler, AuthenticateJWT, LookupAPIKey, Touch, Fails, Register,
       Login, Issue, RefreshToken, Profile, CreateUserApiKey, RevokeUserApiKey, Serve,
       Handles
<1> QED
  BY <1>1, <1>2

LEMMA HandlerKeysFixed ==
  ASSUME IInv, NEW r \in Request, Handler(r)
  PROVE  KeysFixed'
<1>1. TypeOK /\ Progress /\ KeysFixed
  BY DEF IInv
<1>2. CASE CreateUserApiKey(r)
  <2>1. PICK k \in KeyId : /\ minted[k] = NoKey
                           /\ \A l \in KeyId : l # k => minted'[l] = minted[l]
                                                        /\ keys'[l] = keys[l]
                           /\ keys'[k] = minted'[k]
    BY <1>1, <1>2 DEF CreateUserApiKey, TypeOK
  <2>2. \A l \in KeyId : keys'[l] \in {NoKey, minted'[l]}
    BY <1>1, <2>1 DEF KeysFixed
  <2>3. ASSUME NEW q \in Request, NEW l \in KeyId, Revoked(q, l)'
        PROVE  minted'[l] # NoKey /\ keys'[l] = NoKey
    <3>1. Revoked(q, l)
      BY <1>1, <1>2, <2>3, NewlyRevoked DEF CreateUserApiKey, RevokeUserApiKey, Handles
    <3> QED
      BY <1>1, <2>1, <3>1 DEF KeysFixed
  <2> QED
    BY <2>2, <2>3 DEF KeysFixed
<1>3. CASE RevokeUserApiKey(r)
  <2>1. /\ minted' = minted
        /\ \A l \in KeyId : keys'[l] \in {NoKey, keys[l]}
        /\ Reply(r, "OK") /\ call[r].id \in KeyId =>
             keys[call[r].id] # NoKey /\ keys'[call[r].id] = NoKey
    BY <1>1, <1>3, MoveOwn DEF RevokeUserApiKey, TypeOK, Reply
  <2>2. ASSUME NEW q \in Request, NEW l \in KeyId, Revoked(q, l)'
        PROVE  minted'[l] # NoKey /\ keys'[l] = NoKey
    <3>1. CASE Revoked(q, l)
      BY <1>1, <2>1, <3>1 DEF KeysFixed
    <3>2. CASE q = r /\ call[r].id = l
      <4>1. Reply(r, "OK")
        BY <1>1, <1>3, <2>2, <3>2, MoveOwn DEF RevokeUserApiKey, Revoked, Code
      <4> QED
        BY <1>1, <2>1, <3>2, <4>1 DEF KeysFixed
    <3> QED
      BY <1>1, <2>2, <3>1, <3>2, NewlyRevoked
  <2> QED
    BY <1>1, <2>1, <2>2 DEF KeysFixed
<1>4. CASE ~ CreateUserApiKey(r) /\ ~ RevokeUserApiKey(r)
  BY <1>1, <1>4, KeysUntouched, NewlyRevoked DEF KeysFixed
<1> QED
  BY <1>2, <1>3, <1>4

LEMMA MadeStays ==
  ASSUME TypeOK, Progress, NEW r \in Request, Handler(r), NEW q \in Request, NEW row,
         Made(q, row)
  PROVE  Made(q, row)'
BY AnsweredStays, HandlerKeeps DEF Made, Same, SameRequest

LEMMA HandlerKeysMade ==
  ASSUME IInv, NEW r \in Request, Handler(r)
  PROVE  KeysMade'
<1>1. TypeOK /\ Progress /\ AdmittedRightly /\ KeysMade
  BY DEF IInv
<1> DEFINE MadeBySome(row) == \E q \in Request : Made(q, row)'
<1>2. \A row : (\E q \in Request : Made(q, row)) => MadeBySome(row)
  <2> SUFFICES ASSUME NEW row, NEW q \in Request, Made(q, row)
               PROVE  Made(q, row)'
    OBVIOUS
  <2> QED
    BY <1>1, MadeStays
<1>3. CASE CreateUserApiKey(r)
  <2>1. PICK k \in KeyId :
          /\ \A l \in KeyId : l # k => minted'[l] = minted[l]
          /\ minted'[k] = [user |-> userID[r], scopes |-> call[r].scopes,
                           expiresAt |-> ExpiresAt(call[r].days)]
    BY <1>1, <1>3 DEF CreateUserApiKey, TypeOK
  <2>2. HeldToken(r)
    <3>1. Admitted(r)
      BY <1>3 DEF CreateUserApiKey, Handles, Admitted, PublicMethods
    <3>2. ~ EnforceAccess(call[r].method, FALSE, minted[cred[r]].scopes)
      BY <1>3 DEF CreateUserApiKey, Handles, EnforceAccess, JWTOnlyMethods
    <3> QED
      BY <1>1, <3>1, <3>2 DEF AdmittedRightly
  <2>3. pc'[r] = "done" /\ UNCHANGED <<call, cred, tokens>>
        /\ call[r].method = "CreateUserApiKey"
    BY <1>1, <1>3, MoveOwn DEF CreateUserApiKey, Handles, request, Code
  <2>4. Made(r, minted[k])'
    BY <2>1, <2>2, <2>3 DEF Made, HeldToken
  <2> QED
    <3> SUFFICES ASSUME NEW l \in KeyId, minted'[l] # NoKey
                 PROVE  \E q \in Request : Made(q, minted[l])'
      BY DEF KeysMade
    <3>1. CASE l = k
      BY <2>4, <3>1
    <3>2. CASE l # k
      BY <1>1, <1>2, <2>1, <3>2 DEF KeysMade, Made
    <3> QED
      BY <3>1, <3>2
<1>4. CASE ~ CreateUserApiKey(r)
  <2>1. minted' = minted
    BY <1>4, KeysUntouched DEF RevokeUserApiKey
  <2> QED
    BY <1>1, <1>2, <2>1 DEF KeysMade, Made
<1> QED
  BY <1>3, <1>4

LEMMA AccountsStays ==
  ASSUME TypeOK, Progress, NEW r \in Request, Handler(r), NEW q \in Request, NEW t,
         Accounts(q, t)
  PROVE  Accounts(q, t)'
BY AnsweredStays DEF Accounts, Same, SameRequest

LEMMA HandlerTokens ==
  ASSUME IInv, NEW r \in Request, Handler(r)
  PROVE  TokensAccounted'
<1>1. TypeOK /\ Progress /\ TokensAccounted
  BY DEF IInv
<1> SUFFICES ASSUME NEW t \in tokens'
             PROVE  \E q \in Request : Accounts(q, t)'
  BY DEF TokensAccounted
<1>2. CASE t \in tokens
  BY <1>1, <1>2, AccountsStays DEF TokensAccounted
<1>3. CASE Issue(r) /\ t \notin tokens
  <2>1. /\ t \in {AccessToken(userID[r]), NewRefreshToken(userID[r])}
        /\ signedAt'[r] = now /\ now \in Nat \ {0}
        /\ pc'[r] = "done" /\ UNCHANGED <<call, userID>>
        /\ call[r].method \in {"Register", "Login"}
    BY <1>1, <1>3, MoveOwn DEF Issue, TypeOK, Progress, request, Code
  <2>2. /\ t.user = userID[r]
        /\ t.exp <= now + RefreshTokenExpiry
                      + (IF t.type = "access" THEN AccessTokenExpiry ELSE 0)
    BY <2>1, SessionsAssumption DEF AccessToken, NewRefreshToken
  <2>3. Accounts(r, t)'
    BY <2>1, <2>2 DEF Accounts
  <2> QED
    BY <2>3
<1>4. CASE ~ Issue(r) /\ t \notin tokens
  <2>1. RefreshToken(r) /\ Valid(cred[r], "refresh") /\ t = AccessToken(cred[r].user)
    BY <1>4 DEF Handler, Send, AuthenticateJWT, LookupAPIKey, Touch, Fails, Register,
       Login, RefreshToken, Profile, CreateUserApiKey, RevokeUserApiKey, Serve, client
  <2>2. PICK q \in Request : Accounts(q, cred[r])
    BY <1>1, <2>1 DEF Valid, TokensAccounted
  <2>3. cred[r].exp \in Nat /\ cred[r].type = "refresh" /\ now < cred[r].exp
    BY <1>1, <2>1 DEF Valid, TypeOK, Token
  <2>4. Accounts(q, t)
    <3>1. t.type = "access" /\ t.user = cred[r].user /\ t.exp = now + AccessTokenExpiry
      BY <2>1 DEF AccessToken
    <3>2. cred[r].exp <= signedAt[q] + RefreshTokenExpiry
      BY <1>1, <2>2, <2>3, SessionsAssumption DEF Accounts, TypeOK
    <3>3. t.exp <= signedAt[q] + RefreshTokenExpiry + AccessTokenExpiry
      BY <1>1, <2>3, <3>1, <3>2, SessionsAssumption DEF TypeOK
    <3> QED
      BY <2>2, <3>1, <3>3 DEF Accounts
  <2> QED
    BY <1>1, <2>4, AccountsStays
<1> QED
  BY <1>2, <1>3, <1>4

-----------------------------------------------------------------------------
(* Accounts *)

LEMMA HandlerEmails ==
  ASSUME TypeOK, Progress, EmailsTrimmed, EmailsUnique, NEW r \in Request, Handler(r)
  PROVE  EmailsTrimmed' /\ EmailsUnique'
<1>1. CASE UNCHANGED users
  BY <1>1 DEF EmailsTrimmed, EmailsUnique
<1>2. CASE ~ UNCHANGED users
  <2>1. Register(r)
    BY <1>2 DEF Handler, Send, AuthenticateJWT, LookupAPIKey, Touch, Fails, Login, Issue,
       RefreshToken, Profile, CreateUserApiKey, RevokeUserApiKey, Serve, tables
  <2> DEFINE email == TrimEmail[call[r].email]
  <2>2. PICK u \in UserId :
          /\ ~ EmailTaken(email)
          /\ users' = [users EXCEPT ![u] = [email |-> email, password |-> call[r].password]]
    BY <1>2, <2>1 DEF Register, RegisteredEmail
  <2>3. call[r].email \in RawEmail
    BY <2>1, CallFields DEF Register, Handles, Progress
  <2>4. TrimEmail[email] = email
    BY <2>3, SessionsAssumption
  <2>5. /\ users'[u].email = email
        /\ \A v \in UserId : v # u => users'[v] = users[v]
        /\ \A v \in UserId : users[v] # NoUser => users[v].email # email
    BY <2>2 DEF EmailTaken, TypeOK
  <2> HIDE DEF email
  <2>6. EmailsTrimmed'
    BY <2>4, <2>5 DEF EmailsTrimmed
  <2>7. EmailsUnique'
    BY <2>5 DEF EmailsUnique
  <2> QED
    BY <2>6, <2>7
<1> QED
  BY <1>1, <1>2

LEMMA HandlerJoined ==
  ASSUME TypeOK, AccountsJoined, NEW r \in Request, Handler(r)
  PROVE  AccountsJoined'
<1>1. CASE Register(r)
  BY <1>1 DEF Register, AccountsJoined, TypeOK
<1>2. CASE ~ Register(r)
  BY <1>2 DEF Handler, Send, AuthenticateJWT, LookupAPIKey, Touch, Fails, Login, Issue,
     RefreshToken, Profile, CreateUserApiKey, RevokeUserApiKey, Serve, tables, AccountsJoined
<1> QED
  BY <1>1, <1>2

\* Statements add rows; they neither change nor remove what is there.
LEMMA RowsKept ==
  ASSUME TypeOK, NEW r \in Request, Handler(r), NEW u \in joined
  PROVE  u \in joined' /\ users'[u] = users[u]
<1>1. CASE Register(r)
  BY <1>1 DEF Register, TypeOK
<1>2. CASE ~ Register(r)
  BY <1>2 DEF Handler, Send, AuthenticateJWT, LookupAPIKey, Touch, Fails, Login, Issue,
     RefreshToken, Profile, CreateUserApiKey, RevokeUserApiKey, Serve, tables
<1> QED
  BY <1>1, <1>2

\* A request comes to be signed up by its INSERT, and stays so when it is answered.
LEMMA SigningUp ==
  ASSUME TypeOK, Progress, NEW r \in Request, Handler(r), SignedUp(r)'
  PROVE  \/ Register(r) /\ pc'[r] = "issue"
         \/ Issue(r) /\ SignedUp(r)
<1>1. ~ Send(r)
  <2> SUFFICES ASSUME Send(r) PROVE FALSE
    OBVIOUS
  <2>1. /\ call'[r].method \in PublicMethods => Enter(r, call'[r])
        /\ code[r] = "none"
        /\ call'[r].method = "Register"
    BY DEF Send, TypeOK, Progress, SignedUp
  <2>2. Enter(r, call'[r])
    BY <2>1 DEF PublicMethods
  <2> QED
    BY <2>1, <2>2, EnterOwn DEF SignedUp
<1>2. SameRequest(r) /\ call[r].method = "Register" /\ "Register" \in PublicMethods
  <2>1. SameRequest(r)
    BY <1>1, HandlerMoves DEF request, SameRequest
  <2> QED
    BY <2>1 DEF SameRequest, SignedUp, PublicMethods
<1>3. pc[r] \in {"handler", "issue"}
  BY <1>1, <1>2, HandlerOwn DEF Progress, AuthenticateJWT, LookupAPIKey, Touch
<1>4. CASE pc[r] = "issue"
  <2>1. Issue(r)
    BY <1>1, <1>4 DEF Handler, AuthenticateJWT, LookupAPIKey, Touch, Fails, Register,
       Login, RefreshToken, Profile, CreateUserApiKey, RevokeUserApiKey, Serve, Handles
  <2> QED
    BY <1>2, <1>4, <2>1 DEF SignedUp
<1>5. CASE pc[r] = "handler"
  <2>1. code[r] = "none"
    BY <1>5 DEF Progress
  <2>2. ~ Fails(r)
    BY MoveOwn, <2>1 DEF Fails, SignedUp, Code
  <2>3. Register(r)
    BY <1>2, <1>5, <2>2 DEF Handler, Send, AuthenticateJWT, LookupAPIKey, Touch, Login,
       Issue, RefreshToken, Profile, CreateUserApiKey, RevokeUserApiKey, Serve, Handles,
       ScopedMethods, MethodRequiredScope, BuildAPI, OrganizationService, TemplateService
  <2>4. pc'[r] = "issue"
    BY <2>1, <2>3, MoveOwn DEF Register, SignedUp, Code, Step
  <2> QED
    BY <2>3, <2>4
<1> QED
  BY <1>3, <1>4, <1>5

LEMMA HandlerRegistered ==
  ASSUME TypeOK, Progress, RegisteredRows, NEW r \in Request, Handler(r)
  PROVE  RegisteredRows'
<1> DEFINE Row(q) == [email |-> TrimEmail[call[q].email], password |-> call[q].password]
           P(q) == userID[q] \in joined /\ users[userID[q]] \in {NoUser, Row(q)}
<1> SUFFICES ASSUME NEW q \in Request, SignedUp(q)' PROVE P(q)'
  BY DEF RegisteredRows
<1>1. CASE UNCHANGED <<call[q], userID[q]>> /\ SignedUp(q)
  <2>1. P(q)
    BY <1>1 DEF RegisteredRows
  <2>2. userID[q] \in joined' /\ users'[userID[q]] = users[userID[q]]
    BY <2>1, RowsKept
  <2> QED
    BY <1>1, <2>1, <2>2
<1>2. CASE q # r
  <2>1. Same(q)
    BY <1>2, HandlerFrame
  <2> QED
    BY <1>1, <2>1 DEF Same, SameRequest, SignedUp
<1>3. CASE q = r /\ Issue(r) /\ SignedUp(r)
  BY <1>1, <1>3 DEF Issue, request
<1>4. CASE q = r /\ Register(r) /\ pc'[r] = "issue"
  <2>1. PICK u \in UserId \ joined :
          /\ joined' = joined \cup {u}
          /\ users' = [users EXCEPT ![u] = Row(r)]
          /\ userID' = [userID EXCEPT ![r] = u]
    BY <1>4, MoveOwn DEF Register, RegisteredEmail, Code
  <2>2. userID'[r] = u /\ users'[u] = Row(r) /\ u \in joined'
    BY <2>1 DEF TypeOK
  <2>3. Row(r)' = Row(r)
    BY <1>4 DEF Register, request
  <2> QED
    BY <1>4, <2>2, <2>3
<1> QED
  BY <1>2, <1>3, <1>4, SigningUp

\* Only the SELECT of Login and the comparison turn a Login down.
LEMMA TurningDown ==
  ASSUME TypeOK, Progress, NEW r \in Request, Handler(r), call'[r].method = "Login",
         code'[r] = "Unauthenticated"
  PROVE  Login(r) /\ pc'[r] = "done"
<1>1. code[r] = "none"
  BY HandlerMoves DEF Progress
<1>2. ~ Send(r)
  <2> SUFFICES ASSUME Send(r) PROVE FALSE
    OBVIOUS
  <2>1. call'[r].method \in PublicMethods => Enter(r, call'[r])
    BY DEF Send, TypeOK
  <2> QED
    BY <1>1, <2>1, EnterOwn DEF PublicMethods
<1>3. SameRequest(r)
  BY <1>2, HandlerMoves DEF request, SameRequest
<1>4. call[r].method = "Login" /\ "Login" \in PublicMethods
  BY <1>3 DEF SameRequest, PublicMethods
<1>5. /\ pc[r] = "handler" \/ Issue(r)
      /\ pc'[r] = "done"
  BY <1>1, <1>2, <1>4, HandlerOwn DEF Progress, AuthenticateJWT, LookupAPIKey, Touch
<1>6. ~ Issue(r) /\ ~ Fails(r)
  BY MoveOwn DEF Issue, Fails, Code
<1>7. Login(r)
  BY <1>2, <1>4, <1>5, <1>6 DEF Handler, AuthenticateJWT, LookupAPIKey, Touch, Register,
     RefreshToken, Profile, CreateUserApiKey, RevokeUserApiKey, Serve, Handles,
     ScopedMethods, MethodRequiredScope, BuildAPI, OrganizationService, TemplateService
<1> QED
  BY <1>5, <1>7

LEMMA HandlerGetIn ==
  ASSUME TypeOK, Progress, SeenAnswered, RegisteredRows, RegisteredGetIn,
         NEW r \in Request, Handler(r)
  PROVE  RegisteredGetIn'
<1> SUFFICES ASSUME NEW q \in Request, NEW s \in Request,
                    call'[q].method = "Register", code'[q] = "OK",
                    users'[userID'[q]] # NoUser,
                    call'[s].method = "Login", q \in seen'[s],
                    call'[s].email = TrimEmail[call'[q].email],
                    call'[s].password = call'[q].password,
                    code'[s] = "Unauthenticated"
             PROVE  FALSE
  BY DEF RegisteredGetIn
<1>1. SameRequest(s)
  <2>1. CASE s # r
    BY <2>1, HandlerFrame DEF Same
  <2>2. CASE s = r
    BY <2>2, TurningDown, HandlerFrame DEF Login, Handles
  <2> QED
    BY <2>1, <2>2
<1>2. q \in seen[s] /\ code[q] = "OK"
  BY <1>1 DEF SameRequest, SeenAnswered
<1>3. q # r /\ Same(q)
  BY <1>2, AnsweredStays
<1>4. /\ users[userID[q]] # NoUser /\ userID[q] \in UserId
      /\ users[userID[q]].email = TrimEmail[call[q].email]
      /\ users[userID[q]].password = call[q].password
  <2>1. SignedUp(q) /\ userID'[q] = userID[q]
    BY <1>2, <1>3 DEF SignedUp, Same, SameRequest
  <2>2. /\ userID[q] \in joined
        /\ users[userID[q]] \in
             {NoUser, [email |-> TrimEmail[call[q].email], password |-> call[q].password]}
    BY <2>1 DEF RegisteredRows
  <2>3. users[userID[q]] # NoUser
    BY <2>1, <2>2, RowsKept
  <2> QED
    BY <2>2, <2>3 DEF TypeOK
<1>5. /\ call[s].method = "Login" /\ call[q].method = "Register"
      /\ call[s].email = TrimEmail[call[q].email] /\ call[s].password = call[q].password
  BY <1>1, <1>3 DEF Same, SameRequest
<1>6. CASE s # r
  <2>1. code[s] = "Unauthenticated"
    BY <1>6, HandlerFrame DEF Same
  <2> QED
    BY <1>2, <1>4, <1>5, <2>1 DEF RegisteredGetIn
<1>7. CASE s = r
  <2>1. Login(s) /\ pc'[s] = "done"
    BY <1>7, TurningDown
  <2> QED
    BY <1>4, <1>5, <1>7, <2>1, MoveOwn DEF Login, Step
<1> QED
  BY <1>6, <1>7

-----------------------------------------------------------------------------
(* Who a request works for *)

LEMMA HandlerNobody ==
  ASSUME TypeOK, Progress, NobodyYet, NEW r \in Request, Handler(r)
  PROVE  NobodyYet'
<1>1. \A q \in Request : q # r => Same(q)
  BY HandlerFrame
<1>2. pc'[r] \in {"idle", "authenticate"} => Send(r)
  <2>1. AuthenticateJWT(r) => pc'[r] \in {"handler", "done"}
    BY AdmitOwn, MoveOwn DEF AuthenticateJWT, Code
  <2>2. LookupAPIKey(r) => pc'[r] \in {"touch", "done"}
    BY MoveOwn DEF LookupAPIKey, Code, Step
  <2>3. Touch(r) => pc'[r] \in {"handler", "done"}
    BY AdmitOwn DEF Touch
  <2> QED
    BY <2>1, <2>2, <2>3, HandlerOwn
<1>3. Send(r) => userID'[r] = userID[r] /\ pc[r] = "idle"
  BY DEF Send
<1>4. pc'[r] # "done" => signedAt'[r] = signedAt[r]
  <2>1. CASE Issue(r)
    BY <2>1, MoveOwn DEF Issue, Code
  <2>2. CASE ~ Issue(r)
    BY <2>2 DEF Handler, Send, AuthenticateJWT, LookupAPIKey, Touch, Fails, Register, Login,
       RefreshToken, Profile, CreateUserApiKey, RevokeUserApiKey, Serve
  <2> QED
    BY <2>1, <2>2
<1>5. pc[r] # "done"
  BY HandlerMoves
<1> QED
  BY <1>1, <1>2, <1>3, <1>4, <1>5 DEF NobodyYet, Same

-----------------------------------------------------------------------------
(* The environment *)

\* What is on record does not depend on the clock and the tables.
LEMMA RecordsStay ==
  ASSUME IInv, UNCHANGED <<minted, client, request, pc, userID, scopes, code, signedAt>>
  PROVE  /\ SeenAnswered' /\ KeysFound' /\ AdmittedRightly' /\ KeysMade'
         /\ TokensAccounted'
<1> USE DEF client, request
<1>1. SeenAnswered'
  BY DEF IInv, SeenAnswered
<1>2. \A r \in Request : FoundKey(r)' <=> FoundKey(r)
  BY DEF FoundKey, Revoked
<1>3. \A r \in Request : HeldToken(r)' <=> HeldToken(r)
  BY DEF HeldToken
<1>4. KeysFound'
  BY <1>2 DEF IInv, KeysFound
<1>5. AdmittedRightly'
  BY <1>2, <1>3 DEF IInv, AdmittedRightly, Admitted
<1>6. KeysMade'
  BY DEF IInv, KeysMade, Made
<1>7. TokensAccounted'
  BY DEF IInv, TokensAccounted, Accounts
<1> QED
  BY <1>1, <1>4, <1>5, <1>6, <1>7

LEMMA TickInv ==
  ASSUME IInv, Tick
  PROVE  IInv'
<1>1. /\ TypeOK /\ Progress /\ now' = now + 1
      /\ UNCHANGED <<tables, client, request, pc, userID, scopes, code, signedAt>>
  BY DEF IInv, Tick
<1>2. TypeOK'
  BY <1>1 DEF TypeOK, tables, client, request
<1>3. Progress'
  BY <1>1 DEF TypeOK, Progress, request
<1>4. KeysFixed' /\ EmailsTrimmed' /\ EmailsUnique'
  BY <1>1 DEF IInv, KeysFixed, EmailsTrimmed, EmailsUnique, Revoked, tables, request
<1>5. NobodyYet' /\ AccountsJoined'
  BY <1>1 DEF IInv, NobodyYet, AccountsJoined, tables
<1>6. RegisteredRows' /\ RegisteredGetIn'
  BY <1>1 DEF IInv, RegisteredRows, RegisteredGetIn, SignedUp, tables, request
<1> QED
  BY <1>1, <1>2, <1>3, <1>4, <1>5, <1>6, RecordsStay DEF IInv, tables

LEMMA RemoveUserInv ==
  ASSUME IInv, NEW u \in UserId, RemoveUser(u)
  PROVE  IInv'
<1>1. /\ TypeOK /\ KeysFixed /\ u \in UserId
      /\ users' = [users EXCEPT ![u] = NoUser]
      /\ \A k \in KeyId : keys'[k] \in {NoKey, keys[k]}
      /\ UNCHANGED <<joined, lastUsed, minted, client, request, now, pc, userID, scopes,
                     code, signedAt>>
  BY SessionsAssumption DEF IInv, RemoveUser
<1>2. TypeOK'
  <2>1. keys' \in [KeyId -> KeyRow \cup {NoKey}]
    BY <1>1 DEF TypeOK, RemoveUser
  <2> QED
    BY <1>1, <2>1 DEF TypeOK, client, request
<1>3. KeysFixed'
  BY <1>1 DEF KeysFixed, Revoked, request
<1>4. EmailsTrimmed' /\ EmailsUnique'
  BY <1>1 DEF IInv, EmailsTrimmed, EmailsUnique, TypeOK
<1>5. Progress'
  BY <1>1 DEF IInv, Progress, request
<1>6. NobodyYet' /\ AccountsJoined'
  BY <1>1 DEF IInv, NobodyYet, AccountsJoined, TypeOK
<1>7. \A v \in UserId : users'[v] # NoUser => users'[v] = users[v]
  BY <1>1 DEF IInv, TypeOK
<1>8. RegisteredRows' /\ RegisteredGetIn'
  <2>1. \A r \in Request : SignedUp(r)' <=> SignedUp(r)
    BY <1>1 DEF SignedUp, request
  <2>2. \A r \in Request : SignedUp(r) => userID[r] \in UserId
    BY <1>1 DEF IInv, RegisteredRows, TypeOK
  <2>3. RegisteredRows'
    BY <1>1, <1>7, <2>1, <2>2 DEF IInv, RegisteredRows, request
  <2>4. RegisteredGetIn'
    BY <1>1, <1>7, <2>2 DEF IInv, RegisteredGetIn, SignedUp, request
  <2> QED
    BY <2>3, <2>4
<1> QED
  BY <1>1, <1>2, <1>3, <1>4, <1>5, <1>6, <1>8, RecordsStay DEF IInv

-----------------------------------------------------------------------------
(* The theorems *)

LEMMA InitInv == Init => IInv
<1> SUFFICES ASSUME Init PROVE IInv
  OBVIOUS
<1>1. TypeOK
  BY TypeInit
<1>2. Progress /\ SeenAnswered
  BY DEF Init, Progress, SeenAnswered
<1>3. KeysFound /\ AdmittedRightly
  BY DEF Init, KeysFound, AdmittedRightly, Admitted
<1>4. KeysFixed /\ KeysMade /\ TokensAccounted
  BY DEF Init, KeysFixed, KeysMade, TokensAccounted, Revoked
<1>5. EmailsTrimmed /\ EmailsUnique
  BY SessionsAssumption DEF Init, EmailsTrimmed, EmailsUnique
<1>6. NobodyYet /\ AccountsJoined
  BY DEF Init, NobodyYet, AccountsJoined
<1>7. RegisteredRows /\ RegisteredGetIn
  BY DEF Init, RegisteredRows, RegisteredGetIn, SignedUp
<1> QED
  BY <1>1, <1>2, <1>3, <1>4, <1>5, <1>6, <1>7 DEF IInv

LEMMA NextInv == IInv /\ [Next]_vars => IInv'
<1> SUFFICES ASSUME IInv, [Next]_vars PROVE IInv'
  OBVIOUS
<1>1. ASSUME NEW r \in Request, Handler(r) PROVE IInv'
  <2>1. TypeOK' /\ Progress' /\ SeenAnswered'
    BY <1>1, HandlerType, HandlerProgress, HandlerSeen DEF IInv
  <2>2. KeysFound' /\ AdmittedRightly'
    BY <1>1, HandlerKeysFound, HandlerAdmitted
  <2>3. KeysFixed' /\ KeysMade' /\ TokensAccounted'
    BY <1>1, HandlerKeysFixed, HandlerKeysMade, HandlerTokens
  <2>4. EmailsTrimmed' /\ EmailsUnique'
    BY <1>1, HandlerEmails DEF IInv
  <2>5. NobodyYet' /\ AccountsJoined'
    BY <1>1, HandlerNobody, HandlerJoined DEF IInv
  <2>6. RegisteredRows' /\ RegisteredGetIn'
    BY <1>1, HandlerRegistered, HandlerGetIn DEF IInv
  <2> QED
    BY <2>1, <2>2, <2>3, <2>4, <2>5, <2>6 DEF IInv
<1>2. CASE UNCHANGED vars
  <2> USE <1>2 DEF vars, tables, request
  <2>1. TypeOK'
    BY DEF IInv, TypeOK, client
  <2>2. Progress'
    BY DEF IInv, Progress
  <2>3. KeysFixed' /\ EmailsTrimmed' /\ EmailsUnique'
    BY DEF IInv, KeysFixed, EmailsTrimmed, EmailsUnique, Revoked
  <2>4. NobodyYet' /\ AccountsJoined'
    BY DEF IInv, NobodyYet, AccountsJoined
  <2>5. RegisteredRows' /\ RegisteredGetIn'
    BY DEF IInv, RegisteredRows, RegisteredGetIn, SignedUp
  <2> QED
    BY <2>1, <2>2, <2>3, <2>4, <2>5, RecordsStay DEF IInv
<1> QED
  BY <1>1, <1>2, TickInv, RemoveUserInv DEF Next

\* The inductive invariant holds in every reachable state.
THEOREM Inductive == Spec => []IInv
BY InitInv, NextInv, PTL DEF Spec

\* The tables and the handlers' progress keep their shape (internal/auth).
THEOREM TypeCorrect == Spec => []TypeOK
<1>1. IInv => TypeOK
  BY DEF IInv
<1> QED
  BY <1>1, Inductive, PTL

\* A request that was served by a key.
LEMMA ServedKey ==
  ASSUME IInv, NEW r \in Request, ServedByKey(r)
  PROVE  FoundKey(r) /\ HasScope(minted[cred[r]].scopes, call[r].method)
<1>1. Admitted(r)
  BY DEF ServedByKey, Served, Admitted
<1>2. ~ HeldToken(r)
  BY SessionsAssumption DEF IInv, TypeOK, ServedByKey, HeldToken
<1> QED
  BY <1>1, <1>2 DEF IInv, AdmittedRightly, EnforceAccess

\* An API key opens nothing to requests sent after its end (apikeys.go:43-47).
THEOREM KeysDoEnd == Spec => []KeysEnd
<1>1. IInv => KeysEnd
  BY ServedKey DEF KeysEnd, FoundKey
<1> QED
  BY <1>1, Inductive, PTL

\* What an API key opens was granted to it in a session (scopes.go:26-32).
THEOREM KeysStayConfined == Spec => []KeysAreConfined
<1>1. IInv => KeysAreConfined
  <2> SUFFICES ASSUME IInv, NEW r \in Request, ServedByKey(r)
               PROVE  /\ HasScope(minted[cred[r]].scopes, call[r].method)
                      /\ userID[r] = minted[cred[r]].user
                      /\ \E q \in Request :
                           /\ call[q].method = "CreateUserApiKey"
                           /\ call[q].scopes = minted[cred[r]].scopes
                           /\ cred[q] \in Token
                           /\ cred[q].type = "access"
                           /\ cred[q].user = userID[r]
    BY DEF KeysAreConfined
  <2>1. FoundKey(r) /\ HasScope(minted[cred[r]].scopes, call[r].method)
    BY ServedKey
  <2>2. PICK q \in Request : Made(q, minted[cred[r]])
    BY <2>1 DEF IInv, KeysMade, FoundKey
  <2>3. cred[q] \in Token
    BY <2>2 DEF Made, IInv, TypeOK
  <2> QED
    BY <2>1, <2>2, <2>3 DEF FoundKey, Made
<1> QED
  BY <1>1, Inductive, PTL

\* No chain of refreshes outlives a refresh token and an access token
\* (handler.go:163-171).
THEOREM SessionsDoEnd == Spec => []SessionsEnd
<1>1. IInv => SessionsEnd
  <2> SUFFICES ASSUME IInv, NEW r \in Request, ServedByToken(r)
               PROVE  \E q \in Request :
                        /\ signedAt[q] > 0
                        /\ userID[q] = userID[r]
                        /\ call[q].method \in {"Register", "Login"}
                        /\ sentAt[r] < signedAt[q] + RefreshTokenExpiry + AccessTokenExpiry
    BY DEF SessionsEnd
  <2>1. HeldToken(r)
    <3>1. Admitted(r)
      BY DEF ServedByToken, Served, Admitted
    <3>2. ~ FoundKey(r)
      BY SessionsAssumption DEF ServedByToken, FoundKey
    <3> QED
      BY <3>1, <3>2 DEF IInv, AdmittedRightly
  <2>2. PICK q \in Request : Accounts(q, cred[r])
    BY <2>1 DEF IInv, TokensAccounted, HeldToken
  <2>3. /\ cred[r].exp \in Nat /\ signedAt[q] \in Nat /\ sentAt[r] \in Nat
        /\ cred[r].exp <= signedAt[q] + RefreshTokenExpiry + AccessTokenExpiry
    BY <2>1, <2>2, SessionsAssumption DEF IInv, TypeOK, HeldToken, Token, Accounts
  <2> QED
    BY <2>1, <2>2, <2>3, SessionsAssumption DEF HeldToken, Accounts
<1> QED
  BY <1>1, Inductive, PTL

\* No two accounts have emails that differ in space only (handler.go:32).
THEOREM AccountsAreDistinct == Spec => []AccountsDistinct
<1>1. IInv => AccountsDistinct
  BY DEF IInv, EmailsTrimmed, EmailsUnique, AccountsDistinct
<1> QED
  BY <1>1, Inductive, PTL

\* Who registered gets in with the trimmed email (handler.go:32, 78-90).
THEOREM RegisteredDoGetIn == Spec => []RegisteredGetIn
<1>1. IInv => RegisteredGetIn
  BY DEF IInv
<1> QED
  BY <1>1, Inductive, PTL

\* Nobody but its user makes an API key disappear (handler.go:310).
THEOREM OthersKeysDoStay == Spec => OthersKeysStay
<1> DEFINE Gone(k) ==
      \/ users'[keys[k].user] = NoUser
      \/ \E r \in Request :
           /\ pc[r] = "handler" /\ pc'[r] = "done"
           /\ call[r].method = "RevokeUserApiKey" /\ call[r].id = k
           /\ cred[r] \in Token /\ cred[r].user = keys[k].user
    A == \A k \in KeyId : (keys[k] # NoKey /\ keys'[k] = NoKey) => Gone(k)
<1>1. IInv /\ [Next]_vars => [A]_vars
  <2> SUFFICES ASSUME IInv, Next, NEW k \in KeyId, keys[k] # NoKey, keys'[k] = NoKey
               PROVE  Gone(k)
    OBVIOUS
  <2>1. ASSUME NEW r \in Request, Handler(r) PROVE Gone(k)
    <3>1. RevokeUserApiKey(r)
      <4>1. ~ CreateUserApiKey(r)
        BY DEF CreateUserApiKey, IInv, TypeOK, KeysFixed
      <4> QED
        BY <2>1, <4>1, KeysUntouched
    <3>2. /\ call[r].id = k /\ keys[k].user = userID[r]
          /\ pc[r] = "handler" /\ call[r].method = "RevokeUserApiKey"
      BY <3>1 DEF RevokeUserApiKey, Handles, IInv, TypeOK
    <3>3. pc'[r] = "done"
      BY <3>1, MoveOwn DEF RevokeUserApiKey, IInv, Code
    <3>4. HeldToken(r)
      BY <3>2 DEF IInv, AdmittedRightly, Admitted, EnforceAccess, JWTOnlyMethods,
         PublicMethods
    <3> QED
      BY <3>2, <3>3, <3>4 DEF HeldToken, IInv, TypeOK
  <2>2. ASSUME NEW u \in UserId, RemoveUser(u) PROVE Gone(k)
    BY <2>2, SessionsAssumption DEF RemoveUser, IInv, TypeOK
  <2>3. CASE Tick
    BY <2>3 DEF Tick, tables
  <2> QED
    BY <2>1, <2>2, <2>3 DEF Next
<1> QED
  BY <1>1, Inductive, PTL DEF Spec, OthersKeysStay
=============================================================================
