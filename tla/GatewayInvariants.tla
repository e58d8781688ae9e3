-------------------------- MODULE GatewayInvariants --------------------------
(***************************************************************************)
(* The inductive invariant of Gateway: a cookie, in the jar or on its way, *)
(* is the token one answered sign-in of that browser was granted, and what *)
(* a call says is what its URL said.                                       *)
(***************************************************************************)
EXTENDS GatewayProperties, SessionsInvariants

\* Where the HTTP request is says where its call is.
Stages ==
  \A r \in Request :
    /\ at[r] \in {"idle", "sent", "answered"} => pc[r] = "idle"
    /\ at[r] = "forwarded" => pc[r] # "idle"
    /\ at[r] = "over" => pc[r] \in {"idle", "done"}
    /\ at[r] # "idle" => http[r] \in HTTPType /\ http[r].ask \in HTTPCall[r]

\* A call is what became of the request.
AskedRightly ==
  \A r \in Request : pc[r] # "idle" =>
    \E m \in Route[http[r].ask] :
      /\ call[r] = Asked(m, http[r].ask)
      /\ message[r] = Filled(m, http[r].ask.path, http[r].ask.fields)
      /\ cred[r] = Presented(call[r].method, http[r])

\* A token was granted to the user who signed in.
GrantedRightly ==
  \A q \in Request : granted[q] # NoCredential =>
    /\ code[q] = "OK" /\ pc[q] = "done"
    /\ call[q].method \in SignInMethods
    /\ granted[q] \in tokens
    /\ granted[q].type = "access"
    /\ granted[q].user = SignedUser(q)
    /\ granted[q].exp <= now + AccessTokenExpiry

\* b got token t from the request q.
From(q, b, t) == q \in Request /\ http[q].by = b /\ at[q] = "over" /\ granted[q] = t

JarRight(b) ==
  LET q == setBy[b] IN
  /\ jar[b] # NoCookie => From(q, b, jar[b].token) /\ jar[b].token.exp <= jar[b].until
  /\ q # NoRequest => at[q] = "over" /\ (granted[q] # NoCredential => jar[b] # NoCookie)

JarsInOrder == \A b \in Browser : JarRight(b)

CookieRight(r) ==
  LET q == jarOf[r] IN
  /\ http[r].cookie # NoCredential => From(q, http[r].by, http[r].cookie)
  /\ q # NoRequest => at[q] = "over"
  /\ (q # NoRequest /\ granted[q] # NoCredential /\ http[r].cookie = NoCredential)
       => granted[q].exp <= now

CookiesInOrder == \A r \in Request : at[r] # "idle" => CookieRight(r)

\* Nobody makes up a token, and none is refused before its end.
TokensGood ==
  \A r \in Request :
    /\ cred[r] \in Token => cred[r] \in tokens
    /\ ( /\ code[r] = "Unauthenticated" /\ call[r].method \notin PublicMethods
         /\ cred[r] \in Token /\ cred[r].type = "access" )
       => cred[r].exp <= now

\* The answer that signs a browser out is the answer to a logout.
LoggedOutRightly ==
  \A r \in Request : status[r] = "LoggedOut" =>
    at[r] # "idle" /\ http[r].ask.path = LogoutPath

GIInv ==
  /\ GTypeOK
  /\ Stages
  /\ AskedRightly
  /\ GrantedRightly
  /\ JarsInOrder
  /\ CookiesInOrder
  /\ TokensGood
  /\ LoggedOutRightly
=============================================================================
