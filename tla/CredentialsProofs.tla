--------------------------- MODULE CredentialsProofs ---------------------------
(***************************************************************************)
(* Sessions implements Credentials: a request comes to act in the step of  *)
(* the interceptor that finds its token good or its key there, and what it *)
(* does, it does in the step of its handler that answers it.               *)
(***************************************************************************)
EXTENDS SessionsProofs

-----------------------------------------------------------------------------
(* What a step of one request changes of the abstract state *)

\* Whom r acts for and what became of it, by the definitions.
LEMMA Views ==
  ASSUME NEW r \in Request
  PROVE  /\ Actors[r] = IF userID[r] # NoUser /\ Guarded(r)
                        THEN [user |-> userID[r],
                              key |-> IF cred[r] \in KeyId THEN cred[r] ELSE NoKey]
                        ELSE [user |-> NoUser, key |-> NoKey]
         /\ Outcomes[r] = IF ~ Guarded(r) \/ code[r] = "none" THEN "none"
                          ELSE IF code[r] = "OK" THEN call[r].method ELSE "failed"
BY DEF Actors, Outcomes

LEMMA ViewsNext ==
  ASSUME NEW r \in Request
  PROVE  /\ Actors'[r] = IF userID'[r] # NoUser /\ Guarded(r)'
                         THEN [user |-> userID'[r],
                               key |-> IF cred'[r] \in KeyId THEN cred'[r] ELSE NoKey]
                         ELSE [user |-> NoUser, key |-> NoKey]
         /\ Outcomes'[r] = IF ~ Guarded(r)' \/ code'[r] = "none" THEN "none"
                           ELSE IF code'[r] = "OK" THEN call'[r].method ELSE "failed"
BY DEF Actors, Outcomes

LEMMA GuardedSame ==
  ASSUME NEW r \in Request, SameRequest(r)
  PROVE  Guarded(r)' <=> Guarded(r)
BY DEF Guarded, SameRequest

\* The others act for whom they did, and what became of them stands.
LEMMA OthersView ==
  ASSUME TypeOK, NEW r \in Request, Handler(r)
  PROVE  /\ Actors' = [Actors EXCEPT ![r] = Actors'[r]]
         /\ Outcomes' = [Outcomes EXCEPT ![r] = Outcomes'[r]]
<1>1. \A q \in Request : q # r => Actors'[q] = Actors[q] /\ Outcomes'[q] = Outcomes[q]
  <2> SUFFICES ASSUME NEW q \in Request, q # r
               PROVE  Actors'[q] = Actors[q] /\ Outcomes'[q] = Outcomes[q]
    OBVIOUS
  <2>1. Same(q)
    BY HandlerFrame
  <2>2. Guarded(q)' <=> Guarded(q)
    BY <2>1, GuardedSame DEF Same
  <2> QED
    BY <2>1, <2>2, Views, ViewsNext DEF Same, SameRequest
<1>2. /\ Actors = [q \in Request |-> Actors[q]]
      /\ Actors' = [q \in Request |-> Actors'[q]]
  BY DEF Actors
<1>3. /\ Outcomes = [q \in Request |-> Outcomes[q]]
      /\ Outcomes' = [q \in Request |-> Outcomes'[q]]
  BY DEF Outcomes
<1> QED
  BY <1>1, <1>2, <1>3

\* A request that changes neither its user nor its answer changes nothing here.
LEMMA SameView ==
  ASSUME TypeOK, NEW r \in Request, Handler(r), pc[r] # "idle"
  PROVE  /\ userID'[r] = userID[r] \/ ~ Guarded(r) => Actors' = Actors
         /\ code'[r] = code[r] \/ ~ Guarded(r) => Outcomes' = Outcomes
<1>1. SameRequest(r) /\ (Guarded(r)' <=> Guarded(r))
  BY HandlerFrame, GuardedSame
<1>2. userID'[r] = userID[r] \/ ~ Guarded(r) => Actors'[r] = Actors[r]
  BY <1>1, Views, ViewsNext DEF SameRequest
<1>3. code'[r] = code[r] \/ ~ Guarded(r) => Outcomes'[r] = Outcomes[r]
  BY <1>1, Views, ViewsNext DEF SameRequest
<1>4. /\ Actors = [q \in Request |-> Actors[q]]
      /\ Outcomes = [q \in Request |-> Outcomes[q]]
  BY DEF Actors, Outcomes
<1> QED
  BY <1>2, <1>3, <1>4, OthersView

\* A request that is answered: what became of it is known from then on.
LEMMA AnswerEnds ==
  ASSUME TypeOK, Progress, NEW r \in Request, Handler(r), pc[r] # "idle", Guarded(r),
         code'[r] # "none",
         NEW S, (IF code'[r] = "OK" THEN call[r].method ELSE "failed") \in S
  PROVE  C!Ends(r, S)
<1>1. SameRequest(r) /\ Guarded(r)'
  BY HandlerFrame, GuardedSame
<1>2. code[r] = "none"
  BY HandlerMoves DEF Progress
<1>3. Outcomes[r] = "none" /\ Outcomes'[r] \in S
  BY <1>1, <1>2, Views, ViewsNext DEF SameRequest
<1> QED
  BY <1>3, OthersView DEF C!Ends

\* The passwords given are the same when nobody is answered with tokens.
LEMMA PasswordsKept ==
  ASSUME TypeOK, NobodyYet, UNCHANGED signedAt,
         \A q \in Request : pc[q] = "done" => userID'[q] = userID[q]
  PROVE  PasswordsGiven' = PasswordsGiven
<1>1. \A q \in Request : signedAt[q] > 0 => pc[q] = "done"
  BY DEF TypeOK, NobodyYet
<1>2. {q \in Request : signedAt'[q] > 0} = {q \in Request : signedAt[q] > 0}
  OBVIOUS
<1>3. \A q \in {p \in Request : signedAt[p] > 0} :
        [user |-> userID'[q], at |-> signedAt'[q]] = [user |-> userID[q], at |-> signedAt[q]]
  BY <1>1
<1> QED
  BY <1>2, <1>3 DEF PasswordsGiven

LEMMA HandlerPasswords ==
  ASSUME IInv, NEW r \in Request, Handler(r), UNCHANGED signedAt
  PROVE  PasswordsGiven' = PasswordsGiven
<1>1. \A q \in Request : pc[q] = "done" => userID'[q] = userID[q]
  BY HandlerFrame, HandlerMoves DEF IInv, Same
<1> QED
  BY <1>1, PasswordsKept DEF IInv

LEMMA TablesKept ==
  /\ UNCHANGED <<users, joined>> => AccountStates' = AccountStates
  /\ UNCHANGED keys => {k \in KeyId : keys'[k] # NoKey} = {k \in KeyId : keys[k] # NoKey}
BY DEF AccountStates

-----------------------------------------------------------------------------
(* Coming to act *)

\* A request at the interceptor acts for nobody, and nothing became of it.
LEMMA AtTheDoor ==
  ASSUME IInv, NEW r \in Request, pc[r] = "authenticate"
  PROVE  Guarded(r) /\ Actors[r] = C!Nobody /\ Outcomes[r] = "none"
<1>1. userID[r] = NoUser /\ code[r] = "none" /\ Guarded(r)
  BY DEF IInv, NobodyYet, Progress, Guarded
<1> QED
  BY <1>1, Views DEF C!Nobody

\* The token of a session stands for a password given recently.
LEMMA TokenOfSession ==
  ASSUME IInv, NEW r \in Request, Valid(cred[r], "access")
  PROVE  cred[r].user \in UserId /\ C!InSession(cred[r].user)
<1>1. PICK q \in Request : Accounts(q, cred[r])
  BY DEF IInv, Valid, TokensAccounted
<1>2. cred[r] \in Token /\ now < cred[r].exp /\ cred[r].type = "access"
  BY DEF IInv, TypeOK, Valid
<1>3. cred[r].exp \in Nat /\ cred[r].user \in UserId
  BY <1>2 DEF Token
<1>4. /\ signedAt[q] \in Nat /\ signedAt[q] > 0 /\ userID[q] = cred[r].user
      /\ cred[r].exp <= signedAt[q] + RefreshTokenExpiry + AccessTokenExpiry
  BY <1>1, <1>2, SessionsAssumption DEF IInv, TypeOK, Accounts
<1>5. now < signedAt[q] + RefreshTokenExpiry + AccessTokenExpiry
  BY <1>2, <1>3, <1>4, SessionsAssumption DEF IInv, TypeOK
<1>6. [user |-> userID[q], at |-> signedAt[q]] \in PasswordsGiven
  BY <1>4 DEF PasswordsGiven
<1> QED
  BY <1>3, <1>4, <1>5, <1>6 DEF C!InSession

LEMMA AuthenticateJWTStep ==
  ASSUME IInv, NEW r \in Request, AuthenticateJWT(r)
  PROVE  C!CNext
<1>1. /\ TypeOK /\ Progress /\ pc[r] = "authenticate" /\ cred[r] \notin KeyId
      /\ UNCHANGED <<tables, now, signedAt>> /\ Handler(r)
  BY DEF IInv, AuthenticateJWT, Handler
<1>2. SameRequest(r) /\ (Guarded(r)' <=> Guarded(r)) /\ Guarded(r)
  BY <1>1, HandlerFrame, GuardedSame, AtTheDoor
<1>3. /\ PasswordsGiven' = PasswordsGiven /\ AccountStates' = AccountStates
      /\ UNCHANGED <<now, minted>>
      /\ {k \in KeyId : keys'[k] # NoKey} = {k \in KeyId : keys[k] # NoKey}
  BY <1>1, HandlerPasswords, TablesKept DEF tables
<1>4. CASE Valid(cred[r], "access")
  <2>1. userID'[r] = cred[r].user /\ Admit(r, TRUE, {})
    BY <1>1, <1>4 DEF AuthenticateJWT, TypeOK
  <2>2. PICK u \in UserId : u = cred[r].user /\ C!InSession(u)
    BY <1>4, TokenOfSession
  <2>3. Actors'[r] = [user |-> u, key |-> NoKey]
    BY <1>1, <1>2, <2>1, <2>2, ViewsNext, SessionsAssumption DEF SameRequest
  <2>4. UNCHANGED Outcomes \/ C!Ends(r, {"failed"})
    <3>1. CASE pc'[r] = "done"
      <4>1. code'[r] \in {"InvalidArgument", "PermissionDenied"}
        BY <1>1, <2>1, <3>1, AdmitOwn
      <4> QED
        BY <1>1, <1>2, <4>1, AnswerEnds
    <3>2. CASE pc'[r] # "done"
      BY <1>1, <2>1, <3>2, AdmitOwn, SameView
    <3> QED
      BY <3>1, <3>2
  <2>5. C!Enter(r)
    BY <1>1, <1>3, <2>2, <2>3, <2>4, OthersView, AtTheDoor
       DEF C!Enter, C!Actor, C!InSession
  <2> QED
    BY <2>5 DEF C!CNext
<1>5. CASE ~ Valid(cred[r], "access")
  <2>1. UNCHANGED userID /\ code'[r] = "Unauthenticated"
    BY <1>1, <1>5, MoveOwn DEF AuthenticateJWT, Code
  <2>2. UNCHANGED Actors /\ C!Ends(r, {"failed"})
    BY <1>1, <1>2, <2>1, SameView, AnswerEnds
  <2> QED
    BY <1>3, <2>2 DEF C!CNext, C!Fail
<1> QED
  BY <1>4, <1>5

LEMMA LookupAPIKeyStep ==
  ASSUME IInv, NEW r \in Request, LookupAPIKey(r)
  PROVE  C!CNext
<1>1. /\ TypeOK /\ Progress /\ pc[r] = "authenticate" /\ cred[r] \in KeyId
      /\ UNCHANGED <<tables, now, signedAt>> /\ Handler(r)
  BY DEF IInv, LookupAPIKey, Handler
<1>2. SameRequest(r) /\ (Guarded(r)' <=> Guarded(r)) /\ Guarded(r)
  BY <1>1, HandlerFrame, GuardedSame, AtTheDoor
<1>3. /\ PasswordsGiven' = PasswordsGiven /\ AccountStates' = AccountStates
      /\ UNCHANGED <<now, minted>>
      /\ {k \in KeyId : keys'[k] # NoKey} = {k \in KeyId : keys[k] # NoKey}
  BY <1>1, HandlerPasswords, TablesKept DEF tables
<1>4. CASE /\ keys[cred[r]] # NoKey /\ ~ Expired(keys[cred[r]])
           /\ userID' = [userID EXCEPT ![r] = keys[cred[r]].user]
           /\ Goto(r, "touch")
  <2>1. PICK k \in KeyId : k = cred[r]
    BY <1>1
  <2>2. /\ keys[k] = minted[k] /\ minted[k] \in KeyRow
        /\ k \in {l \in KeyId : keys[l] # NoKey}
    BY <1>1, <1>4, <2>1 DEF IInv, KeysFixed, TypeOK
  <2>3. minted[k].user \in UserId /\ userID'[r] = minted[k].user
    BY <1>1, <1>4, <2>1, <2>2 DEF TypeOK, KeyRow
  <2>4. Actors'[r] = [user |-> minted[k].user, key |-> k]
    BY <1>1, <1>2, <2>1, <2>3, ViewsNext, SessionsAssumption DEF SameRequest
  <2>5. minted[k].expiresAt \in Nat => now < minted[k].expiresAt
    BY <1>1, <1>4, <2>1, <2>2 DEF Expired, TypeOK
  <2>6. UNCHANGED Outcomes
    BY <1>1, <1>4, MoveOwn, SameView DEF Step
  <2>7. C!Enter(r)
    BY <1>1, <1>3, <2>2, <2>3, <2>4, <2>5, <2>6, OthersView, AtTheDoor, SessionsAssumption
       DEF C!Enter, C!Actor, C!Unexpired
  <2> QED
    BY <2>7 DEF C!CNext
<1>5. CASE Reply(r, "Unauthenticated") /\ UNCHANGED userID
  <2>1. code'[r] = "Unauthenticated"
    BY <1>1, <1>5, MoveOwn DEF Code
  <2>2. UNCHANGED Actors /\ C!Ends(r, {"failed"})
    BY <1>1, <1>2, <1>5, <2>1, SameView, AnswerEnds
  <2> QED
    BY <1>3, <2>2 DEF C!CNext, C!Fail
<1> QED
  BY <1>4, <1>5 DEF LookupAPIKey

-----------------------------------------------------------------------------
(* Steps that say nothing, or that somebody was turned down *)

\* No part of the abstract state changes.
Unmoved ==
  /\ UNCHANGED <<now, minted, AccountStates, PasswordsGiven, Actors, Outcomes>>
  /\ {k \in KeyId : keys'[k] # NoKey} = {k \in KeyId : keys[k] # NoKey}

\* A step that changes neither tables nor passwords: no more is at stake than
\* whether the request is answered.
LEMMA QuietStep ==
  ASSUME IInv, NEW r \in Request, Handler(r), pc[r] # "idle",
         UNCHANGED <<users, joined, keys, minted, signedAt>>,
         userID'[r] = userID[r] \/ ~ Guarded(r),
         code'[r] \notin {"none", "OK"} \/ code'[r] = code[r] \/ ~ Guarded(r)
  PROVE  Unmoved \/ C!CNext
<1>1. /\ TypeOK /\ Progress /\ PasswordsGiven' = PasswordsGiven
      /\ AccountStates' = AccountStates /\ Actors' = Actors /\ UNCHANGED <<now, minted>>
      /\ {k \in KeyId : keys'[k] # NoKey} = {k \in KeyId : keys[k] # NoKey}
  BY HandlerPasswords, TablesKept, SameView, HandlerMoves DEF IInv
<1>2. CASE code'[r] = code[r] \/ ~ Guarded(r)
  BY <1>1, <1>2, SameView DEF Unmoved
<1>3. CASE code'[r] \notin {"none", "OK"} /\ Guarded(r)
  <2>1. C!Ends(r, {"failed"})
    BY <1>1, <1>3, AnswerEnds
  <2> QED
    BY <1>1, <2>1 DEF C!CNext, C!Fail
<1> QED
  BY <1>2, <1>3

LEMMA SendStep ==
  ASSUME IInv, NEW r \in Request, Send(r)
  PROVE  Unmoved
<1>1. /\ TypeOK /\ Progress /\ pc[r] = "idle" /\ userID[r] = NoUser /\ code[r] = "none"
      /\ UNCHANGED <<tables, now, userID, signedAt>> /\ Handler(r)
  BY DEF IInv, Send, Handler, NobodyYet, Progress
<1>2. Actors'[r] = Actors[r]
  BY <1>1, Views, ViewsNext
<1>3. Outcomes'[r] = Outcomes[r]
  <2>1. CASE Guarded(r)'
    <3>1. Goto(r, "authenticate")
      BY <1>1, <2>1 DEF Send, Guarded, TypeOK
    <3> QED
      BY <1>1, <3>1, Views, ViewsNext DEF Goto
  <2>2. CASE ~ Guarded(r)'
    BY <1>1, <2>2, Views, ViewsNext
  <2> QED
    BY <2>1, <2>2
<1>4. /\ Actors = [q \in Request |-> Actors[q]]
      /\ Outcomes = [q \in Request |-> Outcomes[q]]
  BY DEF Actors, Outcomes
<1>5. Actors' = Actors /\ Outcomes' = Outcomes
  BY <1>1, <1>2, <1>3, <1>4, OthersView
<1> QED
  BY <1>1, <1>5, HandlerPasswords, TablesKept DEF Unmoved, tables

LEMMA TouchStep ==
  ASSUME IInv, NEW r \in Request, Touch(r)
  PROVE  Unmoved \/ C!CNext
<1>1. /\ TypeOK /\ pc[r] = "touch" /\ Handler(r) /\ Admit(r, FALSE, scopes[r])
      /\ UNCHANGED <<users, joined, keys, minted, signedAt, userID>>
  BY DEF IInv, Touch, Handler
<1>2. code'[r] = code[r] \/ code'[r] \in {"InvalidArgument", "PermissionDenied"}
  BY <1>1, AdmitOwn
<1> QED
  BY <1>1, <1>2, QuietStep

LEMMA FailsStep ==
  ASSUME IInv, NEW r \in Request, Fails(r)
  PROVE  Unmoved \/ C!CNext
<1>1. /\ TypeOK /\ pc[r] = "handler" /\ Handler(r)
      /\ UNCHANGED <<users, joined, keys, minted, signedAt, userID>>
  BY DEF IInv, Fails, Handler, tables
<1>2. code'[r] = "Internal"
  BY <1>1, MoveOwn DEF Fails, Code
<1> QED
  BY <1>1, <1>2, QuietStep

-----------------------------------------------------------------------------
(* Methods that are open to all *)

LEMMA PublicMethod ==
  ASSUME NEW r \in Request, call[r].method \in {"Register", "Login", "RefreshToken", "HealthCheck"}
  PROVE  ~ Guarded(r)
BY DEF Guarded, PublicMethods

\* The abstract state depends on which accounts there are, not on their emails.
LEMMA RegisterStep ==
  ASSUME IInv, NEW r \in Request, Register(r)
  PROVE  Unmoved \/ C!CNext
<1>1. /\ TypeOK /\ pc[r] = "handler" /\ Handler(r) /\ ~ Guarded(r)
      /\ UNCHANGED <<keys, minted, signedAt, now>>
  BY PublicMethod DEF IInv, Register, Handler, Handles
<1>2. CASE UNCHANGED <<users, joined>>
  BY <1>1, <1>2, QuietStep
<1>3. CASE ~ UNCHANGED <<users, joined>>
  <2>1. PICK u \in UserId \ joined :
          /\ joined' = joined \cup {u}
          /\ users' = [users EXCEPT ![u] = [email |-> RegisteredEmail(call[r]),
                                            password |-> call[r].password]]
    BY <1>3 DEF Register
  <2>2. users'[u] # NoUser
    <3>1. call[r] \in Call
      BY DEF IInv, Progress, Register, Handles
    <3>2. [email |-> RegisteredEmail(call[r]), password |-> call[r].password] \in UserRow
      BY <3>1, CallFields, SessionsAssumption DEF RegisteredEmail, UserRow
    <3> QED
      BY <1>1, <2>1, <3>2, SessionsAssumption DEF TypeOK
  <2>3. users[u] = NoUser
    BY <2>1 DEF IInv, AccountsJoined
  <2>4. AccountStates[u] = "none"
    BY <2>1, <2>3 DEF AccountStates
  <2>5. AccountStates' = [AccountStates EXCEPT ![u] = "open"]
    BY <1>1, <2>1, <2>2 DEF AccountStates, TypeOK
  <2>6. /\ PasswordsGiven' = PasswordsGiven /\ Actors' = Actors /\ Outcomes' = Outcomes
        /\ {k \in KeyId : keys'[k] # NoKey} = {k \in KeyId : keys[k] # NoKey}
    BY <1>1, HandlerPasswords, SameView, TablesKept
  <2>7. C!Open(u)
    BY <1>1, <2>4, <2>5, <2>6 DEF C!Open
  <2> QED
    BY <2>7 DEF C!CNext
<1> QED
  BY <1>2, <1>3

LEMMA LoginStep ==
  ASSUME IInv, NEW r \in Request, Login(r)
  PROVE  Unmoved \/ C!CNext
<1>1. /\ TypeOK /\ pc[r] = "handler" /\ Handler(r) /\ ~ Guarded(r)
      /\ UNCHANGED <<users, joined, keys, minted, signedAt>>
  BY PublicMethod DEF IInv, Login, Handler, Handles, tables
<1> QED
  BY <1>1, QuietStep

LEMMA RefreshTokenStep ==
  ASSUME IInv, NEW r \in Request, RefreshToken(r)
  PROVE  Unmoved \/ C!CNext
<1>1. /\ TypeOK /\ pc[r] = "handler" /\ Handler(r) /\ ~ Guarded(r)
      /\ UNCHANGED <<users, joined, keys, minted, signedAt>>
  BY PublicMethod DEF IInv, RefreshToken, Handler, Handles, tables
<1> QED
  BY <1>1, QuietStep

\* The answer with the tokens is where a password counts.
LEMMA IssueStep ==
  ASSUME IInv, NEW r \in Request, Issue(r)
  PROVE  C!CNext
<1>1. /\ TypeOK /\ NobodyYet /\ pc[r] = "issue" /\ Handler(r)
      /\ call[r].method \in {"Register", "Login"} /\ userID[r] \in UserId
      /\ UNCHANGED <<users, joined, keys, minted, now, userID>>
      /\ signedAt' = [signedAt EXCEPT ![r] = now] /\ signedAt[r] = 0
      /\ now \in Nat \ {0}
  BY DEF IInv, Issue, Handler, Progress, NobodyYet, TypeOK, tables
<1>2. ~ Guarded(r)
  BY <1>1, PublicMethod
<1>3. /\ Actors' = Actors /\ Outcomes' = Outcomes /\ AccountStates' = AccountStates
      /\ {k \in KeyId : keys'[k] # NoKey} = {k \in KeyId : keys[k] # NoKey}
  BY <1>1, <1>2, SameView, TablesKept
<1>4. PICK u \in UserId : u = userID[r]
  BY <1>1
<1>5. {q \in Request : signedAt'[q] > 0} = {q \in Request : signedAt[q] > 0} \cup {r}
  BY <1>1 DEF TypeOK
<1>6. \A q \in Request : signedAt[q] > 0 => q # r /\ signedAt'[q] = signedAt[q]
  BY <1>1 DEF TypeOK
<1>7. signedAt'[r] = now /\ userID' = userID
  BY <1>1 DEF TypeOK
<1>8. PasswordsGiven' = PasswordsGiven \cup {[user |-> u, at |-> now]}
  BY <1>4, <1>5, <1>6, <1>7 DEF PasswordsGiven
<1>9. C!Prove(u)
  BY <1>1, <1>3, <1>8 DEF C!Prove
<1> QED
  BY <1>9 DEF C!CNext

-----------------------------------------------------------------------------
(* What is done for an actor *)

\* Whom a request at a handler that is not open to all acts for, and what its key
\* was granted.
LEMMA AtTheHandler ==
  ASSUME IInv, NEW r \in Request, pc[r] = "handler", Guarded(r)
  PROVE  /\ userID[r] \in UserId /\ userID[r] # NoUser
         /\ Actors[r].user = userID[r] /\ Actors[r] # C!Nobody
         /\ Actors[r].key # NoKey =>
              HasScope(minted[Actors[r].key].scopes, call[r].method)
         /\ call[r].method \in JWTOnlyMethods => Actors[r].key = NoKey
<1>1. Admitted(r)
  BY DEF Admitted, Guarded
<1>2. userID[r] \in UserId /\ userID[r] # NoUser
  BY <1>1, AdmittedUser, SessionsAssumption DEF IInv
<1>3. Actors[r] = [user |-> userID[r], key |-> IF cred[r] \in KeyId THEN cred[r] ELSE NoKey]
  BY <1>2, Views
<1>4. CASE HeldToken(r)
  <2>1. cred[r] \notin KeyId
    BY <1>4, SessionsAssumption DEF HeldToken, IInv, TypeOK
  <2> QED
    BY <1>2, <1>3, <2>1 DEF C!Nobody
<1>5. CASE FoundKey(r) /\ EnforceAccess(call[r].method, FALSE, minted[cred[r]].scopes)
  <2>1. cred[r] \in KeyId /\ HasScope(minted[cred[r]].scopes, call[r].method)
        /\ call[r].method \notin JWTOnlyMethods
    BY <1>5 DEF FoundKey, EnforceAccess
  <2> QED
    BY <1>2, <1>3, <2>1 DEF C!Nobody
<1> QED
  BY <1>1, <1>4, <1>5 DEF IInv, AdmittedRightly

\* A handler that reads, and is answered OK.
LEMMA ServedStep ==
  ASSUME IInv, NEW r \in Request, Handler(r), pc[r] = "handler", Guarded(r),
         UNCHANGED <<users, joined, keys, minted, signedAt, userID>>,
         code'[r] = "OK", call[r].method \in C!Served,
         call[r].method \in {"GetMe", "UpdateProfile"} => users[userID[r]] # NoUser
  PROVE  C!CNext
<1>1. /\ TypeOK /\ Progress /\ SameRequest(r) /\ PasswordsGiven' = PasswordsGiven
      /\ AccountStates' = AccountStates /\ Actors' = Actors /\ UNCHANGED <<now, minted>>
      /\ {k \in KeyId : keys'[k] # NoKey} = {k \in KeyId : keys[k] # NoKey}
  BY HandlerPasswords, TablesKept, SameView, HandlerMoves, HandlerFrame DEF IInv
<1>2. C!Ends(r, C!Served) /\ Outcomes'[r] = call[r].method
  BY <1>1, AnswerEnds, GuardedSame, ViewsNext DEF SameRequest
<1>3. call[r].method \in {"GetMe", "UpdateProfile"} => AccountStates[userID[r]] = "open"
  BY AtTheHandler DEF AccountStates
<1>4. C!Serve(r)
  BY <1>1, <1>2, <1>3, AtTheHandler DEF C!Serve, C!HasScope, C!ScopedMethods,
     C!MethodRequiredScope, HasScope, ScopedMethods, MethodRequiredScope
<1> QED
  BY <1>4 DEF C!CNext

LEMMA ProfileStep ==
  ASSUME IInv, NEW r \in Request, Profile(r)
  PROVE  Unmoved \/ C!CNext
<1>1. /\ TypeOK /\ pc[r] = "handler" /\ Handler(r)
      /\ call[r].method \in {"GetMe", "UpdateProfile"}
      /\ UNCHANGED <<users, joined, keys, minted, signedAt, userID>>
  BY DEF IInv, Profile, Handler, Handles, tables
<1>2. code'[r] = IF users[userID[r]] # NoUser THEN "OK" ELSE "NotFound"
  BY <1>1, MoveOwn DEF Profile, Code
<1>3. Guarded(r) /\ call[r].method \in C!Served
  BY <1>1 DEF Guarded, PublicMethods, C!Served, C!Method, C!AuthService, C!PublicMethods
<1> QED
  BY <1>1, <1>2, <1>3, ServedStep, QuietStep

LEMMA ServeStep ==
  ASSUME IInv, NEW r \in Request, Serve(r)
  PROVE  Unmoved \/ C!CNext
<1>1. /\ TypeOK /\ pc[r] = "handler" /\ Handler(r)
      /\ call[r].method \in ScopedMethods \cup {"ListUserApiKeys", "HealthCheck"}
      /\ UNCHANGED <<users, joined, keys, minted, signedAt, userID>>
  BY DEF IInv, Serve, Handler, tables
<1>2. code'[r] = "OK"
  BY <1>1, MoveOwn DEF Serve, Code
<1>3. CASE call[r].method = "HealthCheck"
  BY <1>1, <1>3, QuietStep, PublicMethod
<1>4. CASE call[r].method # "HealthCheck"
  <2>1. call[r].method \in C!Served /\ call[r].method \notin {"GetMe", "UpdateProfile"}
    BY <1>1, <1>4 DEF ScopedMethods, MethodRequiredScope, C!Served, C!Method,
       C!AuthService, C!BuildAPI, C!OrganizationService, C!TemplateService, C!PublicMethods
  <2>2. Guarded(r)
    BY <2>1 DEF C!Served, C!PublicMethods, Guarded, PublicMethods
  <2> QED
    BY <1>1, <1>2, <2>1, <2>2, ServedStep
<1> QED
  BY <1>3, <1>4

LEMMA CreateUserApiKeyStep ==
  ASSUME IInv, NEW r \in Request, CreateUserApiKey(r)
  PROVE  C!CNext
<1>1. /\ TypeOK /\ Progress /\ pc[r] = "handler" /\ Handler(r)
      /\ call[r].method = "CreateUserApiKey" /\ call[r] \in Call /\ ~ Invalid(call[r])
      /\ users[userID[r]] # NoUser
      /\ UNCHANGED <<users, joined, now, signedAt, userID>>
  BY DEF IInv, Progress, CreateUserApiKey, Handler, Handles
<1>2. Guarded(r)
  BY <1>1 DEF Guarded, PublicMethods
<1>3. /\ userID[r] \in UserId /\ Actors[r].user = userID[r]
      /\ Actors[r] # C!Nobody /\ Actors[r].key = NoKey
  BY <1>1, <1>2, AtTheHandler DEF JWTOnlyMethods
<1>4. /\ PasswordsGiven' = PasswordsGiven /\ AccountStates' = AccountStates
      /\ Actors' = Actors
  BY <1>1, HandlerPasswords, TablesKept, SameView
<1>5. AccountStates[userID[r]] = "open"
  BY <1>1, <1>3 DEF AccountStates
<1>6. PICK row \in KeyRow :
        row = [user |-> userID[r], scopes |-> call[r].scopes,
               expiresAt |-> ExpiresAt(call[r].days)]
  BY <1>1, <1>3, NewKeyType DEF TypeOK
<1>7. PICK k \in KeyId :
        /\ minted[k] = NoKey
        /\ minted' = [minted EXCEPT ![k] = row]
        /\ keys' = [keys EXCEPT ![k] = row]
        /\ Reply(r, "OK") \/ Reply(r, "Internal")
  BY <1>6 DEF CreateUserApiKey
<1>8. minted'[k] = row /\ row.user = userID[r]
  BY <1>1, <1>6, <1>7 DEF TypeOK
<1>9. {l \in KeyId : keys'[l] # NoKey} = {l \in KeyId : keys[l] # NoKey} \cup {k}
  BY <1>1, <1>7, SessionsAssumption DEF TypeOK
<1>10. C!Ends(r, {"CreateUserApiKey", "failed"})
  <2>1. code'[r] \in {"OK", "Internal"}
    BY <1>1, <1>7, MoveOwn DEF Code
  <2> QED
    BY <1>1, <1>2, <2>1, AnswerEnds
<1>11. C!Mint(r, k)
  BY <1>1, <1>3, <1>4, <1>5, <1>7, <1>8, <1>9, <1>10
     DEF C!Mint, C!SignedIn, C!Grant, KeyRow
<1> QED
  BY <1>11 DEF C!CNext

LEMMA RevokeUserApiKeyStep ==
  ASSUME IInv, NEW r \in Request, RevokeUserApiKey(r)
  PROVE  Unmoved \/ C!CNext
<1>1. /\ TypeOK /\ Progress /\ pc[r] = "handler" /\ Handler(r)
      /\ call[r].method = "RevokeUserApiKey" /\ call[r] \in Call /\ ~ Invalid(call[r])
      /\ UNCHANGED <<users, joined, minted, now, signedAt, userID>>
  BY DEF IInv, Progress, RevokeUserApiKey, Handler, Handles
<1>2. Guarded(r)
  BY <1>1 DEF Guarded, PublicMethods
<1>3. CASE UNCHANGED keys /\ Reply(r, "NotFound")
  <2>1. code'[r] = "NotFound"
    BY <1>1, <1>3, MoveOwn DEF Code
  <2> QED
    BY <1>1, <1>3, <2>1, QuietStep
<1>4. CASE /\ keys[call[r].id] # NoKey /\ keys[call[r].id].user = userID[r]
           /\ keys' = [keys EXCEPT ![call[r].id] = NoKey]
           /\ Reply(r, "OK") \/ Reply(r, "Internal")
  <2>1. PICK k \in KeyId : k = call[r].id
    BY <1>1, CallFields DEF Invalid
  <2>2. /\ k \in {l \in KeyId : keys[l] # NoKey}
        /\ minted[k] = keys[k] /\ minted[k].user = userID[r]
        /\ {l \in KeyId : keys'[l] # NoKey} = {l \in KeyId : keys[l] # NoKey} \ {k}
    BY <1>1, <1>4, <2>1 DEF TypeOK, IInv, KeysFixed
  <2>3. /\ Actors[r].user = userID[r] /\ Actors[r] # C!Nobody /\ Actors[r].key = NoKey
    BY <1>1, <1>2, AtTheHandler DEF JWTOnlyMethods
  <2>4. /\ PasswordsGiven' = PasswordsGiven /\ AccountStates' = AccountStates
        /\ Actors' = Actors
    BY <1>1, HandlerPasswords, TablesKept, SameView
  <2>5. C!Ends(r, {"RevokeUserApiKey", "failed"})
    <3>1. code'[r] \in {"OK", "Internal"}
      BY <1>1, <1>4, MoveOwn DEF Code
    <3> QED
      BY <1>1, <1>2, <3>1, AnswerEnds
  <2>6. C!Revoke(r, k)
    BY <1>1, <2>2, <2>3, <2>4, <2>5 DEF C!Revoke, C!SignedIn
  <2> QED
    BY <2>6 DEF C!CNext
<1> QED
  BY <1>3, <1>4 DEF RevokeUserApiKey

-----------------------------------------------------------------------------
(* The environment *)

LEMMA TickStep ==
  ASSUME IInv, Tick
  PROVE  C!CNext
<1>1. Actors' = Actors /\ Outcomes' = Outcomes
  BY DEF Tick, request, Actors, Outcomes, Guarded
<1>2. PasswordsGiven' = PasswordsGiven
  BY DEF Tick, PasswordsGiven
<1>3. /\ AccountStates' = AccountStates
      /\ {k \in KeyId : keys'[k] # NoKey} = {k \in KeyId : keys[k] # NoKey}
  BY TablesKept DEF Tick, tables
<1> QED
  BY <1>1, <1>2, <1>3 DEF Tick, tables, C!CNext, C!Tick

LEMMA RemoveUserStep ==
  ASSUME IInv, NEW u \in UserId, RemoveUser(u)
  PROVE  C!CNext
<1>1. Actors' = Actors /\ Outcomes' = Outcomes
  BY DEF RemoveUser, request, Actors, Outcomes, Guarded
<1>2. PasswordsGiven' = PasswordsGiven
  BY DEF RemoveUser, PasswordsGiven
<1>3. u \in joined /\ users[u] # NoUser
  BY DEF RemoveUser, IInv, AccountsJoined
<1>4. /\ AccountStates[u] = "open"
      /\ AccountStates' = [AccountStates EXCEPT ![u] = "removed"]
  BY <1>3 DEF RemoveUser, AccountStates, IInv, TypeOK
<1>5. \A k \in KeyId : keys[k] # NoKey => keys[k] = minted[k]
  BY DEF IInv, KeysFixed
<1>6. {k \in KeyId : keys'[k] # NoKey} =
        {k \in {l \in KeyId : keys[l] # NoKey} : minted[k].user # u}
  BY <1>5 DEF RemoveUser
<1>7. C!Remove(u)
  BY <1>1, <1>2, <1>4, <1>6 DEF RemoveUser, C!Remove
<1> QED
  BY <1>7 DEF C!CNext

-----------------------------------------------------------------------------
(* The theorem *)

LEMMA CredentialsInit == Init => C!CInit
<1> SUFFICES ASSUME Init PROVE C!CInit
  OBVIOUS
<1>1. AccountStates \in [UserId -> {"none", "open"}]
  BY DEF Init, AccountStates
<1>2. PasswordsGiven = {}
  BY DEF Init, PasswordsGiven
<1>3. Actors = [r \in Request |-> C!Nobody]
  BY DEF Init, Actors, C!Nobody
<1>4. Outcomes = [r \in Request |-> "none"]
  BY DEF Init, Outcomes
<1> QED
  BY <1>1, <1>2, <1>3, <1>4 DEF Init, C!CInit

LEMMA CredentialsNext == IInv /\ [Next]_vars => [C!CNext]_C!cvars
<1> SUFFICES ASSUME IInv, [Next]_vars PROVE C!CNext \/ Unmoved
  BY DEF C!cvars, Unmoved
<1>1. ASSUME NEW r \in Request, Handler(r) PROVE C!CNext \/ Unmoved
  BY <1>1, SendStep, AuthenticateJWTStep, LookupAPIKeyStep, TouchStep, FailsStep,
     RegisterStep, LoginStep, IssueStep, RefreshTokenStep, ProfileStep,
     CreateUserApiKeyStep, RevokeUserApiKeyStep, ServeStep DEF Handler
<1>2. ASSUME NEW u \in UserId, RemoveUser(u) PROVE C!CNext
  BY <1>2, RemoveUserStep
<1>3. CASE Tick
  BY <1>3, TickStep
<1>4. CASE UNCHANGED vars
  <2>1. /\ UNCHANGED <<now, minted, users, joined, keys, signedAt, userID, code, call, cred>>
    BY <1>4 DEF vars, tables, request
  <2>2. Actors' = Actors /\ Outcomes' = Outcomes /\ PasswordsGiven' = PasswordsGiven
    BY <2>1 DEF Actors, Outcomes, Guarded, PasswordsGiven
  <2> QED
    BY <2>1, <2>2, TablesKept DEF Unmoved
<1> QED
  BY <1>1, <1>2, <1>3, <1>4 DEF Next

\* Sessions, keys and tokens let requests act as Credentials says: each was let in
\* at one instant by a recent password or a live key, and did one thing
\* (middleware.go:65-99, apikeys.go:23-59, handler.go:163-330).
THEOREM SessionsKeepCredentials == Spec => KeepsCredentials
BY CredentialsInit, CredentialsNext, Inductive, PTL DEF Spec, KeepsCredentials, C!CSpec

-----------------------------------------------------------------------------
(* What Credentials means *)

CredentialsInv == C!LiveKeysOwned /\ C!ActsWithinGrant

\* The abstract state consists of functions of users, keys and requests.
LEMMA AbstractShape ==
  /\ AccountStates = [u \in UserId |-> AccountStates[u]]
  /\ Actors = [r \in Request |-> Actors[r]]
  /\ Outcomes = [r \in Request |-> Outcomes[r]]
BY DEF AccountStates, Actors, Outcomes

\* A key that has a grant keeps it in every step, and is not live again.
LEMMA GrantsStay ==
  ASSUME TypeOK, C!CNext
  PROVE  \A k \in KeyId : minted[k] # NoKey =>
           minted'[k] = minted[k] /\ (keys'[k] # NoKey => keys[k] # NoKey)
<1>1. minted = [k \in KeyId |-> minted[k]]
  BY DEF TypeOK
<1>2. ASSUME NEW r \in Request, NEW l \in KeyId, C!Mint(r, l)
      PROVE  \A k \in KeyId : minted[k] # NoKey =>
               minted'[k] = minted[k] /\ (keys'[k] # NoKey => keys[k] # NoKey)
  BY <1>1, <1>2 DEF C!Mint
<1>3. ASSUME NEW r \in Request,
             C!Enter(r) \/ C!Serve(r) \/ C!Fail(r) \/ \E k \in KeyId : C!Revoke(r, k)
      PROVE  \A k \in KeyId : minted'[k] = minted[k] /\ (keys'[k] # NoKey => keys[k] # NoKey)
  BY <1>3 DEF C!Enter, C!Serve, C!Fail, C!Revoke
<1>4. ASSUME NEW u \in UserId, C!Prove(u) \/ C!Open(u) \/ C!Remove(u)
      PROVE  \A k \in KeyId : minted'[k] = minted[k] /\ (keys'[k] # NoKey => keys[k] # NoKey)
  BY <1>4 DEF C!Prove, C!Open, C!Remove
<1>5. C!Tick => \A k \in KeyId : minted'[k] = minted[k] /\ (keys'[k] # NoKey => keys[k] # NoKey)
  BY DEF C!Tick
<1> QED
  BY <1>2, <1>3, <1>4, <1>5 DEF C!CNext

LEMMA LiveKeysStayOwned ==
  ASSUME TypeOK, C!LiveKeysOwned, C!CNext
  PROVE  C!LiveKeysOwned'
<1> DEFINE Owned == \A k \in KeyId : keys[k] # NoKey =>
                      minted[k] \in C!Grant /\ AccountStates[minted[k].user] = "open"
<1>1. Owned
  BY DEF C!LiveKeysOwned
<1>2. \A k \in KeyId : keys'[k] # NoKey =>
        minted'[k] \in C!Grant /\ AccountStates'[minted'[k].user] = "open"
  <2> SUFFICES ASSUME NEW k \in KeyId, keys'[k] # NoKey
               PROVE  minted'[k] \in C!Grant /\ AccountStates'[minted'[k].user] = "open"
    OBVIOUS
  <2>1. CASE minted[k] # NoKey
    <3>1. /\ minted'[k] = minted[k] /\ minted[k] \in C!Grant
          /\ AccountStates[minted[k].user] = "open" /\ keys[k] # NoKey
      BY <1>1, <2>1, GrantsStay
    <3>2. PICK v \in UserId : v = minted[k].user
      BY <3>1 DEF C!Grant
    <3>3. AccountStates'[v] = "open"
      <4>1. ASSUME NEW u \in UserId, C!Open(u) PROVE AccountStates'[v] = "open"
        BY <3>1, <3>2, <4>1, AbstractShape DEF C!Open
      <4>2. ASSUME NEW u \in UserId, C!Remove(u) PROVE AccountStates'[v] = "open"
        <5>1. v # u
          BY <3>1, <3>2, <4>2 DEF C!Remove
        <5> QED
          BY <3>1, <3>2, <4>2, <5>1, AbstractShape DEF C!Remove
      <4>3. AccountStates' = AccountStates => AccountStates'[v] = "open"
        BY <3>1, <3>2
      <4>4. \/ \E u \in UserId : C!Open(u) \/ C!Remove(u)
            \/ AccountStates' = AccountStates
        BY DEF C!CNext, C!Enter, C!Serve, C!Fail, C!Mint, C!Revoke, C!Prove, C!Tick
      <4> QED
        BY <4>1, <4>2, <4>3, <4>4
    <3> QED
      BY <3>1, <3>2, <3>3
  <2>2. CASE minted[k] = NoKey
    <3>1. keys[k] = NoKey
      BY <1>1, <2>2, SessionsAssumption DEF C!Grant, KeyRow
    <3>2. PICK r \in Request, l \in KeyId : C!Mint(r, l)
      BY <3>1 DEF C!CNext, C!Enter, C!Serve, C!Fail, C!Revoke, C!Prove, C!Open, C!Remove,
         C!Tick
    <3>3. l = k
      BY <3>1, <3>2 DEF C!Mint
    <3> QED
      BY <3>2, <3>3 DEF C!Mint
  <2> QED
    BY <2>1, <2>2
<1> QED
  BY <1>2 DEF C!LiveKeysOwned

LEMMA ActsStayWithinGrant ==
  ASSUME TypeOK, C!LiveKeysOwned, C!ActsWithinGrant, C!CNext
  PROVE  C!ActsWithinGrant'
<1> SUFFICES ASSUME NEW r \in Request, Actors'[r].key # NoKey
             PROVE  /\ Actors'[r].key \in KeyId
                    /\ minted'[Actors'[r].key] \in C!Grant
                    /\ Actors'[r].user = minted'[Actors'[r].key].user
                    /\ \/ Outcomes'[r] \in {"none", "failed"}
                       \/ C!HasScope(minted'[Actors'[r].key].scopes, Outcomes'[r])
  BY DEF C!ActsWithinGrant
<1>1. CASE Actors'[r] = Actors[r]
  <2>1. PICK k \in KeyId : k = Actors[r].key
    BY <1>1 DEF C!ActsWithinGrant
  <2>2. /\ minted[k] \in C!Grant /\ Actors[r].user = minted[k].user
        /\ Outcomes[r] \in {"none", "failed"} \/ C!HasScope(minted[k].scopes, Outcomes[r])
    BY <1>1, <2>1 DEF C!ActsWithinGrant
  <2>3. minted'[k] = minted[k]
    BY <2>2, GrantsStay, SessionsAssumption DEF C!Grant, KeyRow
  <2>4. \/ Outcomes'[r] = Outcomes[r] \/ Outcomes'[r] = "failed"
        \/ C!HasScope(minted[k].scopes, Outcomes'[r])
    <3>1. ASSUME NEW q \in Request, C!Serve(q)
          PROVE  \/ Outcomes'[r] = Outcomes[r]
                 \/ C!HasScope(minted[k].scopes, Outcomes'[r])
      <4>1. CASE q = r
        BY <1>1, <2>1, <3>1, <4>1 DEF C!Serve
      <4>2. CASE q # r
        BY <3>1, <4>2, AbstractShape DEF C!Serve, C!Ends
      <4> QED
        BY <4>1, <4>2
    <3>2. ASSUME NEW q \in Request, NEW S, C!Ends(q, S)
          PROVE  Outcomes'[r] = Outcomes[r] \/ (q = r /\ Outcomes'[r] \in S)
      BY <3>2, AbstractShape DEF C!Ends
    <3>3. ASSUME NEW q \in Request, C!Enter(q) \/ C!Fail(q)
          PROVE  Outcomes'[r] = Outcomes[r] \/ Outcomes'[r] = "failed"
      BY <3>2, <3>3 DEF C!Enter, C!Fail
    <3>4. ASSUME NEW q \in Request, NEW l \in KeyId, C!Mint(q, l) \/ C!Revoke(q, l)
          PROVE  Outcomes'[r] = Outcomes[r]
      <4>1. q # r
        BY <1>1, <3>4 DEF C!Mint, C!Revoke, C!SignedIn
      <4> QED
        BY <3>2, <3>4, <4>1 DEF C!Mint, C!Revoke
    <3> QED
      BY <3>1, <3>3, <3>4 DEF C!CNext, C!Prove, C!Open, C!Remove, C!Tick
  <2> QED
    BY <1>1, <2>1, <2>2, <2>3, <2>4
<1>2. CASE Actors'[r] # Actors[r]
  <2>1. PICK q \in Request : C!Enter(q)
    BY <1>2 DEF C!CNext, C!Serve, C!Fail, C!Mint, C!Revoke, C!Prove, C!Open, C!Remove, C!Tick
  <2>2. q = r
    BY <1>2, <2>1, AbstractShape DEF C!Enter
  <2>3. PICK k \in KeyId : /\ k = Actors'[r].key /\ keys[k] # NoKey
                           /\ minted[k].user = Actors'[r].user
    BY <2>1, <2>2 DEF C!Enter
  <2>4. minted[k] \in C!Grant /\ minted' = minted
    BY <2>1, <2>3 DEF C!LiveKeysOwned, C!Enter
  <2>5. Outcomes'[r] \in {"none", "failed"}
    BY <2>1, <2>2 DEF C!Enter, C!Ends
  <2> QED
    BY <2>3, <2>4, <2>5
<1> QED
  BY <1>1, <1>2

\* What the abstract specification says, from its own steps: a live key belongs to
\* an open account, and who acts by a key acts for its user within its scopes
\* (scopes.go:25-55, migration 006: ON DELETE CASCADE).
THEOREM CredentialsMeanIt == Spec => [](C!LiveKeysOwned /\ C!ActsWithinGrant)
<1>1. C!CInit => CredentialsInv
  BY DEF C!CInit, CredentialsInv, C!LiveKeysOwned, C!ActsWithinGrant, C!Nobody
<1>2. TypeOK /\ CredentialsInv /\ C!CNext => CredentialsInv'
  BY LiveKeysStayOwned, ActsStayWithinGrant DEF CredentialsInv
<1>3. CredentialsInv /\ UNCHANGED C!cvars => CredentialsInv'
  BY DEF CredentialsInv, C!LiveKeysOwned, C!ActsWithinGrant, C!cvars
<1>4. TypeOK /\ CredentialsInv /\ [C!CNext]_C!cvars => CredentialsInv'
  BY <1>2, <1>3
<1> QED
  BY <1>1, <1>4, TypeCorrect, SessionsKeepCredentials, PTL
     DEF KeepsCredentials, C!CSpec, CredentialsInv

\* A key that was revoked or went with its account does not come back, and no key
\* changes hands or scopes (apikeys.go:43-47, handler.go:310).
THEOREM KeysEndForGood == Spec => C!EndsForGood
<1>1. TypeOK /\ [C!CNext]_C!cvars => [C!GrantKept]_C!cvars
  BY GrantsStay DEF C!GrantKept
<1> QED
  BY <1>1, TypeCorrect, SessionsKeepCredentials, PTL
     DEF KeepsCredentials, C!CSpec, C!EndsForGood
=============================================================================
