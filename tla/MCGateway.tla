------------------------------ MODULE MCGateway ------------------------------
(***************************************************************************)
(* Instances of Gateway for TLC: the accounts of MCSessions.               *)
(***************************************************************************)
EXTENDS GatewayInvariants, MCSessions

CONSTANTS b1, b2, r1, r2, r3, r4

MCSegment == {"", "v1", "auth", "register", "login", "logout", "me", "refresh", "api-keys",
              "health", "namespaces", "organizations", "members", "builders", "templates",
              "wake", "docs", "k1", "n", "acme", "other"}

MCKeyNamed == [s \in MCSegment |-> IF s = "k1" THEN k1 ELSE NoKey]

NoFields == [f \in PathField |-> ""]

\* A body that says otherwise than the path.
OtherFields == [f \in PathField |-> "other"]

Plain == CHOOSE c \in Asks({"GetMe"}) : TRUE

HTTPAsks(verbs, paths, contents, fields) ==
  [verb : verbs, path : paths, content : contents, fields : fields, wellFormed : {TRUE}]

Auth(word) == <<"v1", "auth", word>>

Signing(email, password) ==
  HTTPAsks({"POST"}, {Auth("login")}, Signs("Login", {email}, {password}), {NoFields})

Post(word) == HTTPAsks({"POST"}, {Auth(word)}, {Plain}, {NoFields})

Me == HTTPAsks({"GET"}, {Auth("me")}, {Plain}, {NoFields})

InBuilders == <<"v1", "namespaces", "acme", "builders">>
InOrgs == <<"v1", "organizations">>

\* Routes of all kinds, and some paths that are none.
AnyRoute ==
  HTTPAsks({"GET", "POST", "PATCH", "DELETE"},
           {InBuilders \o <<"n">>, InOrgs, Auth("api-keys") \o <<"k1">>, Auth("api-keys")},
           Creates({{"builders:read"}}, {1}), {OtherFields})
  \cup HTTPAsks({"GET"}, {InOrgs \o <<"n", "members">>, <<"v1", "health">>, <<"health">>,
                          <<"v1", "namespaces", "builders", "builders">>,
                          <<"v1", "namespaces", "acme", "templates", "">>, <<"docs">>,
                          LogoutPath},
                {Plain}, {NoFields})
  \cup HTTPAsks({"POST"}, {InBuilders \o <<"n", "wake">>}, {Plain}, {OtherFields})
  \cup HTTPAsks({"OPTIONS"}, {Auth("me")}, {Plain}, {NoFields})
  \cup [verb : {"POST"}, path : {Auth("register")}, content : Signs("Register", {"eve@x"}, {"p"}),
        fields : {NoFields}, wellFormed : BOOLEAN]

\* ann signs in; she goes on with her session, or bob signs in in the same browser;
\* a logout; and what comes next.
MCHTTPCall ==
  r1 :> Signing("ann@x", "p")
  @@ r2 :> Signing("bob@x", "q") \cup Post("refresh")
  @@ r3 :> Post("logout")
  @@ r4 :> Me \cup AnyRoute

Asking == UNION {MCHTTPCall[r] : r \in Request}

MCNoCredential == {NoCredential}

MCPath == {h.path : h \in Asking}

\* The calls these requests become.
MCAsked ==
  {h.content : h \in Asking}
  \cup UNION {{Asked(m, h) : m \in Matching(h.verb, h.path)} : h \in Asking}

Unsent(r) == http[r] = NoHTTP

AsksMe == Unsent(r4) \/ http[r4].ask \in Me

\* No header where nobody looks at it.
NoHeader(r) ==
  Unsent(r) \/ http[r].given = NoCredential \/ http[r].ask.path = Auth("refresh")

\* Answers in any order: a refresh and a logout, or two sign-ins, at once.
InRace ==
  /\ AsksMe /\ now = 1 /\ users = Account
  /\ \A r \in Request : NoHeader(r)

\* Headers next to cookies, and the end of both, in one browser.
InLife ==
  /\ AsksMe /\ Unsent(r3) /\ users = Account
  /\ Unsent(r2) \/ http[r2].by = b1
  /\ \A r \in Request \ {r4} : NoHeader(r)

\* Every route, the browser signed in or not.
InRoutes == Unsent(r2) /\ Unsent(r3) /\ now = 1

\* ann's own browser, and another one that may be used for the second sign-in.
InBrowsers == \A r \in {r1, r3, r4} : Unsent(r) \/ http[r].by = b1

InGateway == InBrowsers /\ (InRace \/ InLife \/ InRoutes)
=============================================================================
