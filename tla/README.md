# Verification of build-api

build-api is the public API of BuilderHub: a gRPC server with a REST gateway
that keeps users, API keys, organizations and memberships in PostgreSQL, and
builders and templates as custom resources in Kubernetes, one namespace per
organization. This directory holds TLA+ models of its services, the TLC
configurations that check them on small instances, and proofs checked by TLAPS
for every value of the constants. All definitions are translated from the Go
and SQL source; paths below are relative to the repository.

## 1. Inventory

| Part | State | Operations | Talks to |
|---|---|---|---|
| Organizations (`internal/organizations`) | tables `organizations`, `organization_members` (`migrations/000002`); one Kubernetes namespace per row, named by the id | Create, Get, List, Update, Delete, ListMembers | PostgreSQL, then Kubernetes, without a transaction around both |
| Namespaces (`internal/k8s/namespaces.go`) | namespace life cycle: absent, active, terminating | `EnsureOrgNamespace`, `DeleteOrgNamespace` | called by Organizations and by `CreateBuilder` |
| Builders (`internal/server/handlers.go`) | `BuildkitBuilder` objects: spec, status, annotation `last-used` | List, Get, Create, Update, Delete, Wake | membership in PostgreSQL, objects in Kubernetes, next to build-operator |
| Templates (`internal/templates`) | `BuildkitBuilderTemplate` objects | List, Get, Create, Update, Delete | as builders, next to people with kubectl |
| Accounts (`internal/auth/handler.go`) | table `users` | Register, Login, GetMe, UpdateProfile, RefreshToken | PostgreSQL, JWT manager |
| API keys (`internal/auth/apikeys.go`, `handler.go`) | table `user_api_keys`: hash, scopes, expiry, last use | create, list, revoke, look up | PostgreSQL |
| JWT manager (`internal/auth/jwt.go`) | the secret | create and validate access and refresh tokens | – |
| Interceptors (`middleware.go`, `scopes.go`, `context.go`) | three constant tables: public methods, session-only methods, scope of a method | authenticate, enforce access | API keys, JWT manager; in front of every handler |
| Generated code (`api/gen`) | tables of patterns, handlers, stubs and descriptions | from verb and path to a method and the fields of its message | gRPC client and server |
| Gateway (`cmd/server`) | access-token cookie in the browser | cookie set and read, logout, CORS | gRPC server |
| `main` (`cmd/server`) | listener, two servers in goroutines, pool | start, signal, graceful stop | both servers, PostgreSQL, API server |
| Kubernetes client, pool | configuration, connections | opened at the start | the services |
| Migrations | – | run by a tool of their own | – |
| `internal/buildapi` | – | a stub, unused by `cmd/server` | – |

What is hard here:

- **Two stores, no transaction.** An organization is a row, a membership and a
  namespace. Each handler goes through them one call at a time, on any of
  several replicas. A call may fail; it may take effect and lose its answer; the
  client may leave, which makes the remaining calls fail, the compensating ones
  included; the replica may die. Nothing reconciles the stores afterwards.
- **Checks that go stale.** Membership and role are read first and used later;
  a deletion may come in between.
- **Asynchronous deletion.** A namespace terminates some time after the call.
- **One id, two readings.** The id of an organization comes as a string, which
  PostgreSQL casts to UUID and Kubernetes takes for a name.
- **Get, then write.** `Update` sends the whole object back and depends on
  optimistic concurrency; the patch of `WakeBuilder` is unconditional and is
  computed against a copy that may be old. The operator writes the same objects.
- **Late writes.** A write that was given up at a timeout may still arrive.
- **Normalisation by hand.** Names, slugs, emails, scopes are trimmed or lowered
  in some handlers and not in others.
- **Time.** Access tokens, refresh tokens, cookies and API keys expire, each by
  its own rule.
- **Answers in any order.** The cookie of a browser is what the last answer to
  arrive made of it: a logout may be answered before a refresh that was sent
  first.
- **A resource named twice.** In the URL and in the body; by a verb and path, a
  method and a scope, in tables that are generated apart from those kept by hand.
- **The end of a replica.** Two servers of which one is a client of the other,
  no timeouts, and a pool that is closed while goroutines may run.

What makes each part correct:

- *Organizations*: slugs are exclusive after normalisation; a creation is all or
  nothing; a confirmed organization has its owner, row and namespace until its
  owner deletes it; a deletion is final and at most one claims it; no namespace
  outlives its organization, but for the exceptions `LeaksOnlyByRace` names.
- *Builders and templates*: each call looks like one step to everybody else; no
  update is lost, no wake taken back; what is not part of the API is left alone.
- *Accounts and keys*: a revoked or expired key opens nothing that begins later;
  a token is accepted only as what it was issued for; who registers can log in.
- *Interceptors*: every method is public, session-only or scoped, in one way.
- *Gateway*: a request acts for its header or for the last sign-in its browser
  received, not before and not after a logout; a cookie lasts as long as its token;
  a call is about what its URL names; a GET only reads, but for that of the logout.
- *Life cycle*: a replica that is told to stop answers what it took in, and what it
  refuses it has not begun; handlers have their pool; it does stop, if no client keeps
  it waiting for ever.

## 2. Modules

    OrgStores ──► Organizations ──► OrganizationsProperties ──► OrganizationsInvariants ──► MCOrganizations
                                      │ INSTANCE OrgLedger                            └──► OrganizationsProofs ──► LedgerProofs
    CRSpecs ──► CustomResources ──► CustomResourcesProperties ──► CustomResourcesInvariants ──► MCCustomResources
                                      │ INSTANCE ResourceCatalog                        └──► CustomResourcesProofs
    Access ──► Sessions ──► SessionsProperties ──► SessionsInvariants ──► MCSessions
                  │               │ INSTANCE Credentials        └──► SessionsProofs ──► CredentialsProofs ──┐
    Routes ───────┴──► Gateway ──► GatewayProperties ──► GatewayInvariants ──► MCGateway                    │
                                                                 └──► GatewayProofs ◄───────────────────────┘
    Lifecycle ──► LifecycleProperties ──► LifecycleInvariants ──► MCLifecycle
                          │ INSTANCE Replica         └──► LifecycleProofs

- **OrgStores** – the tables `organizations` and `organization_members` and the
  namespaces, with one operator per SQL statement or Kubernetes call that
  succeeds. `issued` remembers the ids `gen_random_uuid()` returned, so that none
  is returned twice. `Spelling` is the strings clients send for an id, `Uuid` the
  cast to the type of the columns, by which rows are found; namespaces go by the
  string as it is, if it is `Legal`. `users` is the accounts, with which memberships
  go (`DeleteUserRow`). `NamespaceFinalized` is the namespace controller.
- **Organizations** – the handlers Create, Get, Update and DeleteOrganization,
  and the parts of CreateBuilder and CreateTemplate that touch the same
  namespace. A request is fixed in `call`; `pc` is the next call its handler
  makes; each action is one statement or API call with all its outcomes
  (`Returns`, `Fails`, `IsLost`, `IsRefused`) and the code up to the next call.
  `OrgOf` is the organization a request finds in the tables, `NsOf` the name it gives
  to Kubernetes. A call whose answer is lost stays in `late` until it arrives
  (`Arrives`), if it does. `AccountRemoved` is an account that goes while its tokens
  are accepted. `errs`, `dirty` and `overlap` are history the properties speak about.
- **OrgLedger** – what callers are promised about ids, slugs and lifetimes,
  without stores and handlers. `KeepsLedger` maps the detailed state to it.
- **CRSpecs** – the specs of the API and of the custom resources and the
  conversions both ways: zero replicas and idle timeouts become absent fields, absent
  fields are shown as defaults, quantities are parsed and shown in canonical form.
- **CustomResources** – the handlers of builders and templates for one
  organization whose namespace exists, the API server's rule for writes
  (`Store`, `UpdateCR`, `PatchCR`), the operator, and people with kubectl. `copy`
  is the object a handler got, `stamp` the time it put into its patch.
- **ResourceCatalog** – the same operations, each in a single step.
- **Access** – the methods of the four services, the three tables of
  `internal/auth` and `enforceAccess`.
- **Sessions** – accounts, tokens and API keys with a clock. A request chooses
  its `call` and credential when it is sent; the interceptor and the handlers of
  AuthService follow, one statement per action. Looking a key up (`LookupAPIKey`),
  recording its use (`Touch`) and the handler's own statement are three steps,
  between which others revoke, delete and sign. A token is its claims, a key its
  row; what nobody issued is `Junk`. Handlers of the other services are the one
  step `Serve`, which marks where they begin to work for `userID`. `minted`,
  `sentAt`, `seen` and `signedAt` are history the properties speak about.
- **Credentials** – what credentials promise, without tokens and tables: a request
  comes to act for a user in one instant, by a password given recently enough or a
  key that is live right then, and later does one thing; keys are made and ended by
  sessions of their user alone. `KeepsCredentials` maps Sessions to it: `minted` is
  the grant of a key, the rows there are now are the live keys, and a request acts
  for `userID` from the statement on that set it.
- **Routes** – what is generated from the `.proto` files, one table per service
  and stage: the pattern and verb of a method (`pb.gw.go`), what its `request_`
  function decodes and then sets from the path, the full name its stub sends, and
  the handler the server has for a name (`_grpc.pb.go`).
- **Gateway** – extends Sessions with browsers. `http` is a request as it was sent,
  with the cookie attached then; `Forward` is the way through `rootMux`, the
  annotator and the generated handler to a call of Sessions, `Work` a step of that
  call, `Receive` the answer and what it does to the `jar`. `Preflight`, `Health`,
  `Logout`, `NotRouted` and `NotForwarded` are answers without a call. `setBy` and
  `jarOf` are history.
- **Lifecycle** – `main` from `NewPool` to the deferred `pool.Close`, one action per
  call that can fail or wait (`main` is where it is); the goroutines of the two
  servers, which may start late, fail or break down; requests from gRPC clients and
  through the gateway, which wait for their clients to send, to read and to end a
  stream (`Clients`); signals, which end the process before `signal.Notify` and
  fill a channel after it; crashes.
- **Replica** – what a replica promises to clients and to who stops it: the fate of
  each request, who is connected to the gateway and waits there, and which waits a stop consists of.
  `KeepsReplica` maps `main` to its phases.
- ***Properties** state what should hold; ***Invariants** strengthen it to
  inductive invariants; ***Proofs** prove these; **MC*** give the constants values.

Operators named `X_Something` and marked "With a bug" stand before the operator
`X` they vary; no specification uses them. They are there to show that each
property notices the mistake it is about.

## 3. Runs

| Run (cfg) | Question | Result |
|---|---|---|
| `MCOrganizations` | what is left after failed calls, lost answers and writes that arrive late, departed clients, dead replicas, ids in other spellings, an owner's account that goes; roles that change under running handlers, refused requests; do the handlers implement the ledger, can slugs collide by case or space | `AckedOrgHasOwner`, `AckedOrgStands`, `CreateAllOrNothing`, `LeaksOnlyByRace`, `AtMostOneDeleteOK`, `NoSilentLoss`, `SlugsExclusive`, `KeepsLedger`, `IInv`, `TypeOK` hold |
| `MCOrganizationsLiveness` | does a deletion finish, and is it final | `DeletionFinishes` holds under `FairSpec`; `DeletionIsFinal` holds |
| `MCCatalog` | do the handlers implement one-step calls; wakes against updates, deletions and each other; may what is shown be sent back | `KeepsCatalog`, `WakeSticks`, `NoLostUpdate`, `SentBackIsTheSame`, `IInv`, `TypeOK` hold |
| `MCCredentialLives` | how long do keys and sessions open anything: expiry, revocation by their user or another, deleted accounts, chains of refreshes; do the handlers implement the abstract credentials | `KeysEnd`, `SessionsEnd`, `OthersKeysStay`, `KeepsCredentials` hold |
| `MCDoors` | what gets in: keys of all kinds, emails that differ in space, refused requests | `KeysAreConfined`, `AccountsDistinct`, `RegisteredGetIn`, `IInv`, `TypeOK` hold |
| `MCGateway` | whose is a request when sign-ins, refreshes and logouts are answered in any order; what is it about when path and body differ; what may a GET change | `ActsForItsSession`, `SignedInStaysIn`, `ActsOnWhatTheURLNames`, `GetsOnlyRead`, `GIInv` hold |
| `MCLifecycle` | who is cut off or refused when a replica starts, breaks down, stops; does it stop; does it implement the abstract replica | `NothingCutOff`, `HandlersHaveThePool`, `RefusedDidNotRun`, `RefusedOnlyAtTheEnd`, `KeepsReplica`, `IInv` hold; `StopsInTheEnd`, `EverybodyHears` hold under `FairSpec` |
| `MCDeletedOrgIsGone` | is the namespace of a deleted organization gone | violated, see below |
| `MCCreatorBecomesOwner` | does every new organization have its owner | violated |
| `MCManagedFieldsKept` | are fields managed on the resource kept | violated |
| `MCKeysHoldValidScopes` | do keys hold valid scopes only | violated |
| `MCRegisteredCanLogin` | can who registered log in | violated |

The five violations are disagreements between the code and what it or its
documentation says:

1. `DeletedOrgIsGone`: `DeleteOrganization` is sent the id in upper case. PostgreSQL
   casts it to UUID, so the caller is found to be the owner and the row is deleted
   (`service.go:281`, `299`); `DeleteOrgNamespace` is given the string as it is, and
   that no namespace has that name counts as success (`service.go:294`,
   `namespaces.go:37`). The answer is OK and the namespace stays, though no other
   request was under way. `organizations.proto:37` says deletion removes it.
2. `CreatorBecomesOwner`: the client leaves after the first INSERT; the second
   fails, and so does the compensating DELETE, which uses the same context
   (`service.go:163`). The organization stays without an owner and keeps its slug.
3. `ManagedFieldsKept`: `UpdateTemplate` replaces the spec as a whole
   (`templates/service.go:122`), so tolerations, affinity and the other fields
   that `templates.proto:102` says can be managed on the resource are removed.
4. `KeysHoldValidScopes`: `CreateUserApiKey` trims each scope to validate it and
   stores it untrimmed (`auth/handler.go:192`, `230`); the key holds a scope that
   `ValidScopes`, "the allowlist when creating API keys" (`scopes.go:15`), does not
   have, and opens nothing. What does hold is `KeysAreConfined`.
5. `RegisteredCanLogin`: `Register` stores the email trimmed (`handler.go:32`),
   `Login` looks it up as sent (`handler.go:79`). What does hold is
   `RegisteredGetIn`: the email as it was stored always opens the account.

Two more differences between creating and updating are in the models and have no
run, because nothing in the repository says what an update must refuse: an update
of an organization with a name of spaces stores the empty name
(`service.go:239-242`), which creation refuses (`service.go:130`); `UpdateBuilder`
accepts a spec without `template_ref` (`handlers.go:154`), which creation refuses
(`handlers.go:121`).

What does hold of namespaces is `LeaksOnlyByRace`: an active one without an
organization is left by such a spelling, by a lost answer, or by a race, and by
nothing else. The race is between a request that makes sure the namespace is there
and one that removes the row: `CreateBuilder` passes its membership check, a deletion
runs to its end, `EnsureOrgNamespace` makes the namespace again (`handlers.go:110`);
or `CreateOrganization` inserted the row and its owner and the deletion comes before
its own `EnsureOrgNamespace` (`service.go:167`). `DeletionIsFinal` and
`DeletionFinishes` say that the namespace a deletion did name is gone for good,
outside of these races and lost answers.

An owner whose account is deleted leaves the organization behind, without an owner
and with its namespace (`000002_auth.up.sql:25`): nothing in the code looks after it,
and nothing in the repository says what should. `AckedOrgHasOwner` is about creators
who have an account. One who has none can still end a deletion it began: the role was
read before (`KeepsLedger`).

A builder with an idle timeout of 0, which only kubectl can write, gets one of 300
seconds from a client that sends back what it was shown (`handlers.go:231`, `263`),
and one scaled to 0 is scaled up; `SentBackIsTheSame` says that these, and the fields
of finding 3, are all that changes.

`README.md:9`, `10`, `57` and `58` list `/docs`, `/openapi.json` and `/ready`, which
`main.go:101-104` does not route: in Gateway they are `NotRouted`. What the README
gives with them, `/health` included, is no behaviour of more than one step, so there
is no run for it.

What the properties of Gateway and Lifecycle leave open is as much a result as what
they say. A logout does not end what was in flight: a refresh sent before it may be
answered after it and sign the browser in again, and the token itself lives on
(`ActsForItsSession` goes by the order of answers). A cookie may be kept longer than
its token, as its hour begins when the answer arrives (`GIInv`), never shorter
(`SignedInStaysIn`). A GET changes nothing in the tables but the last use of a key, and
the cookie on one path only: `/v1/auth/logout`, whose handler does not look at the
verb (`main.go:103`, `137`), so that a link or a prefetch signs the browser out
(`GetsOnlyRead`). During a stop the gateway goes on taking requests and refuses
them (`RefusedOnlyAtTheEnd`); a gRPC server that broke down is never started again,
while `/health` answers 200. A signal that comes before `signal.Notify`
(`main.go:115`) ends the process with requests on their way: `NothingCutOff` is about
replicas that stop by themselves.

### Bounds

- Organizations: two users, two ids, one of which can also be spelled without hyphens
  (a legal name) and in upper case (not a legal one), a string that is no UUID, two
  slugs with a variant in case and space, three requests in flight. The properties
  relate at most three requests (a creation, a deletion and one that races with them);
  a second organization is enough for slugs. The constraint `InOrganizations` keeps a
  behaviour in one of five scenes, as all at once would be too many: every fault and
  one owner, with one request at most that is given up, dies or loses an answer, and
  two calls at most that fail; a team, in which one request fails, or one is turned down
  for its fields, or roles change; two owners with slugs, and one request that fails;
  an owner who spells the id in every way, without faults; an owner whose account goes
  at any time, next to an admin or to calls that fail. `MaxErrors` bounds clean failures
  per request at 2, the call and its compensation; where one request fails it does so
  once. The proofs cover every mix of these, with at most one lost answer per request
  as in the model. The run under fairness has one organization, two spellings and one
  call that fails.
- CustomResources: one member, one builder, one template; three requests of any
  kind, so that a builder is created and then woken twice, or woken and updated,
  at once. Kinds do not touch each other, so `InScene` keeps the builder apart
  from the template and from requests that look or are refused. `MaxRevision`
  bounds what operator and people write, `MaxTime = 2` gives two distinct stamps.
- Sessions: four requests where a chain needs them (log in, create, revoke, use;
  log in, refresh, refresh, use), else three; one key, which both users contend
  for; two accounts and the id of a third. A run explores several scenes
  (`Scenes`): each has its calls, the instant up to which it goes on and the
  accounts that may be deleted. The constraint `InScene` keeps a behaviour within
  one of them, as all calls at once would be too many; the proofs cover every mix of
  calls. The scene of long sessions has one login (`once`): a second one would only
  begin another chain. Next to all credentials issued so far, requests carry none or a foreign
  one where refusals are the question (`Unissued`). Lives are small numbers in the
  order of the code's (an access token ends before a refresh token); the end of a
  scene lies past the end of what is issued at its start.
- Gateway: two browsers, and four requests in the order of a story: somebody signs
  in; goes on with the session or somebody else signs in; a logout; a last request
  that acts. `InGateway` keeps a behaviour in one of three scenes: answers in any
  order, in two browsers or one; headers and ends of cookies in one browser; all
  routes with a body that contradicts the path. Each route kind (a field in the path or none, a body or none, each verb) is
  asked for once, and so is a GET of the logout; the tables of all 26 methods are
  compared by the theorems. Lives are one instant, so that tokens and cookies end in the scene.
- Lifecycle: two requests through the gateway, one call of a gRPC client and one
  stream. The properties are about one request and the process; the others are there
  to be waited for.
- `SYMMETRY` permutes requests, which no definition tells apart, in the runs of
  Organizations and CustomResources; the liveness runs do without.
- `CHECK_DEADLOCK FALSE` everywhere: when all requests are answered and nothing
  is left to clean up, the system rests.

### Fairness

`DeletionFinishes` needs weak fairness of every handler (goroutines are
scheduled, and each statement or API call returns, with an error if need be) and
of the namespace controller. No fairness of arrivals, of departing clients or of
other requests is assumed. The run has no crashes, since a handler that dies
does not answer OK and is not what the property is about. `DeletionIsFinal`, the
safety half of it, needs no fairness.

`StopsInTheEnd` and `EverybodyHears` need weak fairness of `main`, of the goroutines
of the two servers and of what runs for each request: the Go scheduler, and handlers
that end because PostgreSQL and the API server answer. Nothing is assumed of clients.
There is no `ReadTimeout` and no `WriteTimeout` (`main.go:106`), the `request_`
functions read the body to its end, and the streams of `reflection.Register` (`main.go:67`) end when
their clients like; so one client that stops sending or reading keeps a replica from
stopping for ever, as `GracefulStop` and `Shutdown` with a background context
(`main.go:118-119`) do mean. Both properties say so: `StopsInTheEnd` supposes that
no client keeps the replica waiting for ever (`Patient`), `EverybodyHears` supposes it
of the client itself only. Signals, crashes, arrivals and servers that break down are
not assumed to come. What `Shutdown` does to a connection on which nothing was sent
(`CloseIdle`) is net/http's.

## 4. Proofs

The proof modules show `Spec => []IInv` and derive the properties from it.
Assumptions are those named in the modules (`NoRowAssumption`, `SpellingAssumption`,
`NoSlugAssumption`, `OrganizationsAssumption`, `CRSpecsAssumption`, `CustomResourcesAssumption`,
`SessionsAssumption`, `GatewayAssumption`, `LifecycleAssumption`): sentinels are not
values, an id spells itself and is a legal name, `Slugify` and `TrimEmail` are idempotent, calls are well-formed, accounts to
begin with obey the schema, the cookie's life is at least the token's
(`main.go:171`, `jwt.go:33`). Sets of requests, users, ids and times are
arbitrary.

*OrganizationsProofs.* `AckedOrgStands` says nothing about a handler under way, so
`IInv` adds what is true between calls: which step belongs to which operation
(`ControlInv`), ids are issued once and memberships go with rows (`StoreInv`),
only creators own, so whoever passed the check of a deletion is the creator
(`OwnerInv`), how many failures led to a compensation (`AnswerInv`), and that a
namespace can only be made or kept without a row by handlers that overlap, lose an
answer or name another (`LeakInv`). A write that has yet to arrive counts as a handler
that is still at its step (`At`). Theorems: `TypeCorrect`, `SlugsAreExclusive`, `ConfirmedIsOwned`,
`ConfirmedStands`, `CreationIsAllOrNothing`, `LeaksAreRaces`, `LossIsNeverSilent`,
`OneDeletionSucceeds`. `DeletionIsFinal` compares a state with all later ones.
`GoneInv`, inductive next to `IInv`, says that after a deletion that was answered OK
and not raced there is no row, the namespace it named is not active and no handler or
late write is about to make one (`DeletedIsGone`). A handler that is sent afterwards finds no membership, so it never
comes that far; that is the step of `DeletionEndsIt`.

*LedgerProofs.* `ImplementsLedger`: each step of Organizations is one operation of
`OrgLedger` or none. Only the answer of CreateOrganization confirms (`Confirming`);
the other steps are told apart by what they do to rows (`RowStep`). A row that goes
although it was confirmed is not one that is compensated for, as an id is created
once, so its handler passed the role check, is the creator's, and the creator is
still the owner, or has no account any more (`ClosedByOwner`). `LedgerMeansIt` says what was promised by that, in
the terms of the ledger alone: no id lives twice, what is open closes only if its
deletion was wanted, and a slug is held by one that lives.

*CustomResourcesProofs.* The key is `VersionInv`: one resourceVersion stands for
one content, so an Update that is accepted finds exactly what was read. `WakeInv`
says that wakes without a rival find the stamp they read and later ones stamp no
earlier. From it follow `WakesStick`, `UpdatesReplaceWhatTheyRead` and, step by
step, `Implements`: the handlers implement `ResourceCatalog`. `SentBackStays` needs
types only: the conversions undo each other up to what the operator acts on, of all
that an update can say.
`CatalogMeansIt` draws the conclusions from the catalog: no step changes both spec
and last use of a resource, and nothing was last used in the future.

*SessionsProofs.* The properties compare an answer with the moment its request was
sent, while tables and clock move on, so `IInv` keeps what was shown to the
interceptor: `FoundKey` and `HeldToken` speak only of rows as inserted, tokens
once signed and requests once answered, none of which change (`KeysFound`,
`AdmittedRightly`). `KeysFixed` says a row is as inserted or gone, and gone for
good once revoked; `KeysMade` that a session stands behind each key;
`TokensAccounted` that a password stands behind each token, with the latest
instant it can reach. Theorems: `TypeCorrect`, `KeysDoEnd`, `KeysStayConfined`,
`SessionsDoEnd`, `AccountsAreDistinct`, `OthersKeysDoStay`; and `MethodsSorted`,
which compares the tables with the methods of the `.proto` files. `RegisteredDoGetIn`
needs `RegisteredRows`: the row a Register inserted is as asked for, or gone, and ids
do not come back, so no Login that saw it answered can miss it.

*CredentialsProofs.* `SessionsKeepCredentials`: each step of Sessions is one of
`Credentials` or none. `AuthenticateJWT` is where a session is let in, whose token
has somebody's password behind it (`TokensAccounted`); `LookupAPIKey` is where a key
is, while its row is there; `Touch` is nothing, or a refusal; refreshes and the
sending of requests are nothing. That a request has nobody to act for before that (`NobodyYet`) and that an
account that goes was once opened (`AccountsJoined`) had to be added to `IInv`.
`CredentialsMeanIt` and `KeysEndForGood` draw the conclusions, in the terms of
`Credentials`: live keys belong to open accounts, who acts by a key stays within what
it was made for, and a key that ended stays ended.

*GatewayProofs.* `GatewayKeepsSessions` shows that each step of Gateway is a step of
Sessions or none, so the invariant of Sessions can be used. `GIInv` follows a token
from the answer it was granted in (`GrantedRightly`) into the jar (`JarsInOrder`) and
from the jar into requests sent later (`CookiesInOrder`), and says that a call is
what its URL and body were made into (`AskedRightly`). `TokensGood` adds that a
credential that was turned down had come to its end, `LoggedOutRightly` that only the
path of the logout is answered by it. Theorems: `GatewayInductive`, `ActsForItsOwnSession`, `StaysSignedIn`, `ActsOnTheURL`,
`GetsDoOnlyRead`; and `GatewayKeepsCredentials`, which composes the refinements.

*LifecycleProofs.* `IInv` says what may be going on at each point of `main`
(`MainKnows`), in which order listener, gRPC server and gateway appear and go
(`ListenerFirst`), and where requests can be (`RequestsRight`). Theorems:
`LifecycleTyped`, `NothingIsCutOff`, `ThePoolOutlivesHandlers`,
`RefusedMayBeSentAgain`, `RefusesOnlyAtTheEnd`. `ReplicaIsKept`: each step is one of
`Replica` or none. For a request to be let go by the gateway it must have its answer
when the gateway passes one on (`AnswersRight`). `ReplicaMeansIt` adds that fates are
final and that what a stop waits for was there, or connected, when the wait began.

Only model-checked: `DeletionFinishes`, `StopsInTheEnd` and `EverybodyHears`
(liveness is out of the prover's reach), and the five violations.

## 5. Assumptions of the models

- Every SQL statement is atomic (autocommit) and every Kubernetes call is
  linearizable at the API server.
- A write whose answer is lost takes effect once, at any later time, or never, in
  Organizations (`Arrives`) and in CustomResources (`GiveUp`). In Sessions, where
  everything is in PostgreSQL, it does so before the handler sees the error.
- One clock for all replicas; nobody but `WakeBuilder` writes `last-used`.
- A dead replica is `Crash` in Organizations, a request that is given up or
  fails in CustomResources, and one that takes no more steps in Sessions.
- One clock in Sessions for the replicas and PostgreSQL's `NOW()`; secrets and
  signatures cannot be guessed; accounts are deleted by operators with SQL only.
- Memberships other than the owner's are written, and accounts deleted, by operators
  with SQL: no handler does either. Nobody but handlers writes organizations or namespaces.
- ListOrganizations and ListOrganizationMembers return rows and are left out.
  Plans, labels and other payload are collapsed where no property needs them.
- A browser attaches its cookie to every request to the site and no other (SameSite,
  HttpOnly and CORS are the browser's business). grpc-gateway runs one of the
  handlers that match a verb and path; Gateway leaves open which.
- A call of the gateway that finds no listener is refused; one that finds it open
  waits for the server. The kernel does not lose connections. A client that goes away
  in Lifecycle is one that has read its answer, or does not go on.

## 6. Not modelled

- Message types and getters (`*.pb.go`), marshalling, and the generated servers for
  calls in the same process, which `main.go` does not use: data and dead code.
- `internal/buildapi`: a stub no program uses.
- The Helm chart, local-k8s, CI and the tool that runs migrations: no behaviour of
  this program but that there are several replicas.
- CORS headers, log lines, wording of errors, the mapping of status codes to HTTP.

## 7. Plan

1. *Composition*: a request of Organizations or CustomResources that enters
   through Sessions, to relate revocation to effects on the stores.
2. *Two replicas* of Lifecycle behind one address, to say what a rolling update does
   to clients that send a refused request again.
