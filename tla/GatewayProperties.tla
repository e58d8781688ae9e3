-------------------------- MODULE GatewayProperties --------------------------
(***************************************************************************)
(* What must hold of requests that come through the gateway, whatever the  *)
(* order in which they, and their answers, arrive.                         *)
(***************************************************************************)
EXTENDS Gateway, SessionsProperties

\* The shape of the state of the gateway and of browsers (cmd/server/main.go).
GTypeOK ==
  /\ jar \in [Browser -> Cookie \cup {NoCookie}]
  /\ at \in [Request -> {"idle", "sent", "forwarded", "answered", "over"}]
  /\ http \in [Request -> HTTPType \cup {NoHTTP}]
  /\ status \in [Request -> {"none", "OK", "NoContent", "LoggedOut", "NotFound",
                             "InvalidArgument", "Unavailable"}]
  /\ message \in [Request -> [PathField -> Segment]]
  /\ granted \in [Request -> Token \cup {NoCredential}]
  /\ setBy \in [Browser -> Request \cup {NoRequest}]
  /\ jarOf \in [Request -> Request \cup {NoRequest}]

-----------------------------------------------------------------------------
(* Whose request it is *)

SignInMethods == {"Register", "Login", "RefreshToken"}

\* The user q signed in, or whose session it went on with.
SignedUser(q) == IF call[q].method = "RefreshToken" THEN cred[q].user ELSE userID[q]

\* A request with a header acts for the header, whatever cookie is attached.  One
\* without acts for the user whom the browser's own last sign-in brought back, last
\* in the order in which answers arrived; it never acts after a logout unless a
\* sign-in was answered later still (main.go:137-177, 192-208).
ActsForItsSession ==
  \A r \in Request : Served(r) =>
    \/ http[r].given # NoCredential /\ cred[r] = http[r].given
    \/ LET q == jarOf[r] IN
       /\ http[r].given = NoCredential
       /\ q # NoRequest
       /\ http[q].by = http[r].by
       /\ call[q].method \in SignInMethods /\ code[q] = "OK"
       /\ userID[r] = SignedUser(q)

\* A browser that was signed in and not out is not turned down before its token
\* ends, be the cookie as old as it may (main.go:171, jwt.go:33).
SignedInStaysIn ==
  \A r \in Request :
    ( /\ code[r] = "Unauthenticated" /\ call[r].method \notin PublicMethods
      /\ http[r].given = NoCredential
      /\ jarOf[r] # NoRequest /\ granted[jarOf[r]] # NoCredential )
    => granted[jarOf[r]].exp <= now

-----------------------------------------------------------------------------
(* What it is about *)

\* Segment i of a path names a resource, and a message has the name in field f.
Names(path, i, f) ==
  \/ i = 3 /\ path[2] = "namespaces" /\ f = "{namespace}"
  \/ i = 5 /\ path[2] = "namespaces" /\ f = "{name}"
  \/ i = 3 /\ path[2] = "organizations" /\ Len(path) = 3 /\ f = "{id}"
  \/ i = 3 /\ path[2] = "organizations" /\ Len(path) = 4 /\ f = "{organization_id}"
  \/ i = 4 /\ path[2] = "auth" /\ path[3] = "api-keys" /\ f = "{id}"

\* A call that is made is about the resources its URL names, whatever the body says
\* (the request_ functions of api/gen/buildapi/v1/*.pb.gw.go).
ActsOnWhatTheURLNames ==
  \A r \in Request : pc[r] # "idle" =>
    LET path == http[r].ask.path IN
    \A i \in 1 .. Len(path) : \A f \in PathField :
      Names(path, i, f) => message[r][f] = path[i]

\* What a GET changes.  In the tables, and among the tokens, nothing but the time an API key
\* was last used (mux.Handle in api/gen/buildapi/v1/*.pb.gw.go, and the scopes of
\* scopes.go:35-55).  In the browser, nothing - except on the path of the logout, whose
\* handler takes every verb: a link to it or a prefetch of it signs the browser out
\* (main.go:103, 137-149).
GetsOnlyRead ==
  [][\A r \in Request : http[r] # NoHTTP /\ http[r].ask.verb = "GET" =>
       /\ (pc[r] \in Step /\ pc'[r] # pc[r]) =>
            /\ UNCHANGED <<users, keys, tokens, secrets>>
            /\ call[r].method \in ScopedMethods =>
                 MethodRequiredScope[call[r].method] \in
                   {"organizations:read", "builders:read", "templates:read"}
       /\ (at'[r] # at[r] /\ jar' # jar) => http[r].ask.path = LogoutPath]_gvars
=============================================================================
