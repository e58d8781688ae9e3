------------------------------- MODULE Gateway -------------------------------
(***************************************************************************)
(* The HTTP gateway (cmd/server/main.go and the generated handlers) in     *)
(* front of Sessions: browsers, the cookie they keep, the way of an HTTP   *)
(* request to the call it becomes and of the answer back.                  *)
(*                                                                         *)
(* The cookie is a copy of the last token the browser was given.  A        *)
(* request carries the copy of the moment it is sent; its answer may       *)
(* replace the copy when it arrives, in any order with other answers, or   *)
(* never arrive.  What is in Sessions goes on as it does there.            *)
(***************************************************************************)
EXTENDS Sessions, Routes

CONSTANTS
  Browser,
  HTTPCall,     \* what each request may ask for, subsets of HTTPCallType
  Segment,      \* of paths, and values of the fields of a message
  Path,
  KeyNamed,     \* the key with an id
  NoCookie, NoHTTP, NoRequest,
  CookieMaxAge  \* 3600 seconds

\* content is what the body says besides the fields that name a resource.
HTTPCallType ==
  [verb : {"GET", "POST", "PATCH", "DELETE", "OPTIONS"}, path : Path, content : Call,
   fields : [PathField -> Segment], wellFormed : BOOLEAN]

\* A request on its way.  given is its Authorization header or, in the body of a
\* refresh, the token to refresh with.
HTTPType ==
  [by : Browser, ask : HTTPCallType, given : Credential,
   cookie : Token \cup {NoCredential}]

Cookie == [token : Token, until : Nat]

VARIABLES
  jar,     \* the cookie builderhub_access_token of each browser
  at,      \* where an HTTP request is
  http,    \* the request as it was sent
  status,  \* the answer of the gateway where it made none of its own calls
  message, \* what request_M filled in
  granted, \* the access token in the answer to a Register, Login or RefreshToken
  \* The following are there for the properties only.
  setBy,   \* the last request whose answer changed the jar
  jarOf    \* that request when this one was sent

web == <<jar, at, http, status, message, granted, setBy, jarOf>>
gvars == <<vars, web>>

\* The call a request becomes once it is forwarded to handler m.
Asked(m, h) ==
  [h.content EXCEPT !.method = Dispatch(Stub(m)).runs,
                    !.id = KeyNamed[Filled(m, h.path, h.fields)["{id}"]]]

LogoutPath == <<"v1", "auth", "logout">>

\* rootMux and corsHandler: what does not get as far as the generated handlers.
ForGateway(h) == h.verb # "OPTIONS" /\ h.path \notin {<<"health">>, LogoutPath}

ASSUME GatewayAssumption ==
  /\ HTTPCall \in [Request -> SUBSET HTTPCallType]
  /\ "" \in Segment
  /\ Path \subseteq Seq(Segment)
  /\ KeyNamed \in [Segment -> KeyId \cup {NoKey}]
  /\ NoCookie \notin Cookie
  /\ NoHTTP \notin HTTPType
  /\ NoRequest \notin Request
  /\ CookieMaxAge \in Nat /\ CookieMaxAge >= AccessTokenExpiry
  /\ NoCredential \in Unissued
  /\ \A r \in Request : \A h \in HTTPCall[r] : ForGateway(h) =>
       \A m \in Matching(h.verb, h.path) : Asked(m, h) \in Call

\* The handlers gwMux has for a request.
Route ==
  [h \in UNION {HTTPCall[r] : r \in Request} |->
      IF ForGateway(h) THEN Matching(h.verb, h.path) ELSE {}]

GInit ==
  /\ Init
  /\ jar = [b \in Browser |-> NoCookie]
  /\ at = [r \in Request |-> "idle"]
  /\ http = [r \in Request |-> NoHTTP]
  /\ status = [r \in Request |-> "none"]
  /\ message = [r \in Request |-> [f \in PathField |-> ""]]
  /\ granted = [r \in Request |-> NoCredential]
  /\ setBy = [b \in Browser |-> NoRequest]
  /\ jarOf = [r \in Request |-> NoRequest]

-----------------------------------------------------------------------------
(* The browser *)

\* What it attaches to a request to this site.
CookieOf(b) ==
  IF jar[b] # NoCookie /\ now < jar[b].until THEN jar[b].token ELSE NoCredential

Browse(r) ==
  /\ at[r] = "idle"
  /\ \E b \in Browser, h \in HTTPCall[r], given \in tokens \cup secrets \cup Unissued :
       /\ http' = [http EXCEPT ![r] = [by |-> b, ask |-> h, given |-> given,
                                       cookie |-> CookieOf(b)]]
       /\ jarOf' = [jarOf EXCEPT ![r] = setBy[b]]
  /\ at' = [at EXCEPT ![r] = "sent"]
  /\ UNCHANGED <<vars, jar, status, message, granted, setBy>>

\* Its answer, once there is one, sets or removes the cookie.
SignsIn(r) == granted[r] # NoCredential

SignsOut(r) == at[r] = "answered" /\ status[r] = "LoggedOut"

Answered(r) == at[r] = "answered" \/ (at[r] = "forwarded" /\ pc[r] = "done")

\* With a bug: logoutHandler sets no cookie to be deleted.
Receive_KeepsCookie(r) ==
  LET b == http[r].by IN
  /\ Answered(r)
  /\ at' = [at EXCEPT ![r] = "over"]
  /\ IF SignsIn(r)
     THEN /\ jar' = [jar EXCEPT ![b] = [token |-> granted[r], until |-> now + CookieMaxAge]]
          /\ setBy' = [setBy EXCEPT ![b] = r]
     ELSE /\ UNCHANGED jar
          /\ setBy' = IF SignsOut(r) THEN [setBy EXCEPT ![b] = r] ELSE setBy
  /\ UNCHANGED <<vars, http, status, message, granted, jarOf>>

Receive(r) ==
  LET b == http[r].by IN
  /\ Answered(r)
  /\ at' = [at EXCEPT ![r] = "over"]
  /\ \/ /\ SignsIn(r)
        /\ jar' = [jar EXCEPT ![b] = [token |-> granted[r], until |-> now + CookieMaxAge]]
        /\ setBy' = [setBy EXCEPT ![b] = r]
     \/ /\ SignsOut(r)
        /\ jar' = [jar EXCEPT ![b] = NoCookie]
        /\ setBy' = [setBy EXCEPT ![b] = r]
     \/ ~ SignsIn(r) /\ ~ SignsOut(r) /\ UNCHANGED <<jar, setBy>>
  /\ UNCHANGED <<vars, http, status, message, granted, jarOf>>

-----------------------------------------------------------------------------
(* The gateway *)

AnswerHere(r, st) ==
  /\ at' = [at EXCEPT ![r] = "answered"]
  /\ status' = [status EXCEPT ![r] = st]
  /\ UNCHANGED <<vars, jar, http, message, granted, setBy, jarOf>>

\* OPTIONS, whatever the path.
Preflight(r) ==
  /\ at[r] = "sent" /\ http[r].ask.verb = "OPTIONS"
  /\ AnswerHere(r, "NoContent")

Health(r) ==
  /\ at[r] = "sent" /\ http[r].ask.verb # "OPTIONS" /\ http[r].ask.path = <<"health">>
  /\ AnswerHere(r, "OK")

\* Whatever the verb and whoever asks.
Logout(r) ==
  /\ at[r] = "sent" /\ http[r].ask.verb # "OPTIONS" /\ http[r].ask.path = LogoutPath
  /\ AnswerHere(r, "LoggedOut")

NotRouted(r) ==
  /\ at[r] = "sent" /\ ForGateway(http[r].ask) /\ Route[http[r].ask] = {}
  /\ AnswerHere(r, "NotFound")

\* The body cannot be decoded, or the server cannot be reached.
NotForwarded(r) ==
  /\ at[r] = "sent"
  /\ \E m \in Route[http[r].ask] :
       \/ RequestFunc(m).body /\ ~ http[r].ask.wellFormed /\ AnswerHere(r, "InvalidArgument")
       \/ AnswerHere(r, "Unavailable")

\* With a bug: the cookie is not looked at.
Authorization_HeaderOnly(x) == x.given

\* authMetadataAnnotator and extractBearerToken.
Authorization(x) == IF x.given # NoCredential THEN x.given ELSE x.cookie

Presented(method, x) ==
  IF method \in {"Register", "Login", "HealthCheck"} THEN NoCredential
  ELSE IF method = "RefreshToken" THEN x.given ELSE Authorization(x)

\* The handler of the route fills the message and calls its stub.
Forward(r) ==
  LET x == http[r] IN
  /\ at[r] = "sent"
  /\ \E m \in Route[x.ask] :
       /\ RequestFunc(m).body => x.ask.wellFormed
       /\ call' = [call EXCEPT ![r] = Asked(m, x.ask)]
       /\ cred' = [cred EXCEPT ![r] = Presented(call'[r].method, x)]
       /\ message' = [message EXCEPT ![r] = Filled(m, x.ask.path, x.ask.fields)]
  /\ Send(r)
  /\ at' = [at EXCEPT ![r] = "forwarded"]
  /\ UNCHANGED <<jar, http, status, granted, setBy, jarOf>>

\* With a bug: a refresh hands out another refresh token, and the cookie with it.
Work_RefreshCookie(r) ==
  /\ at[r] = "forwarded" /\ Handler(r)
  /\ granted' = [granted EXCEPT ![r] =
       IF code'[r] # "OK" THEN granted[r]
       ELSE IF pc[r] = "issue" THEN AccessToken(userID[r])
       ELSE IF call[r].method = "RefreshToken" THEN cred[r]
       ELSE granted[r]]
  /\ UNCHANGED <<jar, at, http, status, message, setBy, jarOf>>

\* The interceptor and the handler of the service.
Work(r) ==
  /\ at[r] = "forwarded" /\ Handler(r)
  /\ granted' = [granted EXCEPT ![r] =
       IF code'[r] # "OK" THEN granted[r]
       ELSE IF pc[r] = "issue" THEN AccessToken(userID[r])
       ELSE IF call[r].method = "RefreshToken" THEN AccessToken(cred[r].user)
       ELSE granted[r]]
  /\ UNCHANGED <<jar, at, http, status, message, setBy, jarOf>>

Around == (Tick \/ \E u \in UserId : RemoveUser(u)) /\ UNCHANGED web

GNext ==
  \/ \E r \in Request :
       \/ Browse(r) \/ Receive(r) \/ Preflight(r) \/ Health(r) \/ Logout(r)
       \/ NotRouted(r) \/ NotForwarded(r) \/ Forward(r) \/ Work(r)
  \/ Around

GSpec == GInit /\ [][GNext]_gvars
=============================================================================
