------------------------------ MODULE MCSessions ------------------------------
(***************************************************************************)
(* Instances of Sessions for TLC: ann and bob have accounts, a third       *)
(* account may be registered.                                              *)
(***************************************************************************)
EXTENDS SessionsInvariants, TLC

CONSTANTS
  ann, bob, eve, k1,
  Scenes \* the scenes of this run

MCUserId == {ann, bob, eve}
MCKeyId  == {k1}

MCRawEmail  == {"", "ann@x", " ann@x ", "bob@x", "eve@x", " eve@x "}
MCTrimEmail == [e \in MCRawEmail |-> CASE e = " ann@x " -> "ann@x"
                                     [] e = " eve@x " -> "eve@x"
                                     [] OTHER -> e]
MCPassword  == {"", "p", "q"}

MCRawScope  == ValidScopes \cup {" builders:read", "admin"}
MCTrimScope == [s \in MCRawScope |-> IF s = " builders:read" THEN "builders:read" ELSE s]

MCDays == {-9, -1, 0, 1, 9}

MCAccount == ann :> [email |-> "ann@x", password |-> "p"]
             @@ bob :> [email |-> "bob@x", password |-> "q"]
             @@ eve :> NoUser

-----------------------------------------------------------------------------
(* Calls; fields a method does not look at have a fixed value *)

Asks(methods) ==
  [method : methods, email : {""}, password : {""}, blankName : {FALSE},
   scopes : {{}}, days : {0}, id : {NoKey}]

Signs(method, emails, passwords) ==
  [method : {method}, email : emails, password : passwords, blankName : {FALSE},
   scopes : {{}}, days : {0}, id : {NoKey}]

Creates(scopeSets, days) ==
  [method : {"CreateUserApiKey"}, email : {""}, password : {""}, blankName : {FALSE},
   scopes : scopeSets, days : days, id : {NoKey}]

Revokes(ids) ==
  [method : {"RevokeUserApiKey"}, email : {""}, password : {""}, blankName : {FALSE},
   scopes : {{}}, days : {0}, id : ids]

Unnamed(method) ==
  [method : {method}, email : {"eve@x"}, password : {"p"}, blankName : {TRUE},
   scopes : {{"builders:read"}}, days : {0}, id : {NoKey}]

\* A key that expires, is revoked, or goes with ann's account, and is used.
KeyCalls ==
  Signs("Login", {"ann@x"}, {"p"}) \cup Creates({{"builders:read"}}, {1})
  \cup Revokes({k1}) \cup Asks({"ListBuilders"})

\* Keys of ann and bob, who may try to revoke each other's.
RevokeCalls ==
  Signs("Login", {"ann@x"}, {"p"}) \cup Signs("Login", {"bob@x"}, {"q"})
  \cup Creates({{"builders:read"}}, {-1}) \cup Revokes({k1})

\* Long sessions.
SessionCalls ==
  Signs("Login", {"ann@x"}, {"p"}) \cup Asks({"RefreshToken", "GetMe"})

\* Accounts, and requests of all kinds that are turned down.
AccountCalls ==
  Signs("Register", {"eve@x", " eve@x ", " ann@x "}, {"p"})
  \cup Signs("Login", {"eve@x", " eve@x "}, {"p", "q"})
  \cup Signs("Login", {""}, {"p"})
  \cup Unnamed("Register") \cup Unnamed("UpdateProfile")
  \cup Asks({"UpdateProfile", "ListUserApiKeys", "HealthCheck"})

\* Keys with scopes and lives of all kinds.
ScopeCalls ==
  Signs("Login", {"ann@x"}, {"p"})
  \cup Creates({{" builders:read"}, {"builders:read", "templates:write"},
                {"admin"}, {}}, {-1, 0})
  \cup Creates({{"builders:read"}}, {9, -9}) \cup Unnamed("CreateUserApiKey")
  \cup Asks({"ListBuilders", "CreateTemplate", "GetMe"}) \cup Revokes({NoKey})

-----------------------------------------------------------------------------
(* A run explores several scenes, each with its own calls and bounds: how late *)
(* it gets, whose account may be deleted, and what is asked for only once.     *)

Scene(calls, until, removable, once) ==
  [calls |-> calls, until |-> until, removable |-> removable, once |-> once]

LifeScenes == {Scene(KeyCalls, 2, {ann}, {}), Scene(RevokeCalls, 1, {ann}, {}),
               Scene(SessionCalls, 5, {}, {"Login"})}
DoorScenes == {Scene(AccountCalls, 2, {eve}, {}), Scene(ScopeCalls, 2, {}, {})}

MCCall == UNION {s.calls : s \in Scenes}

InScene ==
  \E s \in Scenes :
    /\ \A r \in Request : call[r] \in s.calls \cup {NoCall}
    /\ now <= s.until
    /\ \A u \in joined : users[u] = NoUser => u \in s.removable
    /\ \A q, r \in Request : (q # r /\ call[q].method = call[r].method)
                             => call[r].method \notin s.once

MCUnissued == {NoCredential, Junk}
MCNothing  == {}

Symmetry == Permutations(Request)
=============================================================================
