----------------------------- MODULE GatewayProofs -----------------------------
(***************************************************************************)
(* The properties of module GatewayProperties, proved for any number of    *)
(* browsers and requests, any URLs and bodies, and any life of tokens.     *)
(***************************************************************************)
EXTENDS GatewayInvariants, CredentialsProofs

-----------------------------------------------------------------------------
(* The generated code *)

\* The tables of the one service that has the method.
LEMMA Entries ==
  ASSUME NEW auth, NEW build, NEW org, NEW template, NEW m
  PROVE  /\ m \in AuthService => Entry(auth, build, org, template, m) = auth[m]
         /\ m \in BuildAPI => Entry(auth, build, org, template, m) = build[m]
         /\ m \in OrganizationService => Entry(auth, build, org, template, m) = org[m]
         /\ m \in TemplateService => Entry(auth, build, org, template, m) = template[m]
BY DEF Entry, AuthService, BuildAPI, OrganizationService, TemplateService

LEMMA Stubs ==
  ASSUME NEW m \in Method
  PROVE  \E service \in {"AuthService", "BuildAPI", "OrganizationService", "TemplateService"} :
           /\ Stub(m) = <<service, m>>
           /\ Dispatch(Stub(m)) = [runs |-> m, fullMethod |-> <<service, m>>]
<1>1. CASE m \in AuthService
  <2>1. Stub(m) = <<"AuthService", m>>
    BY <1>1, Entries DEF Stub, AuthStub
  <2> QED
    BY <1>1, <2>1 DEF Dispatch, AuthDesc, AuthMethodHandler
<1>2. CASE m \in BuildAPI
  <2>1. Stub(m) = <<"BuildAPI", m>>
    BY <1>2, Entries DEF Stub, BuildStub
  <2> QED
    BY <1>2, <2>1 DEF Dispatch, BuildDesc, BuildMethodHandler
<1>3. CASE m \in OrganizationService
  <2>1. Stub(m) = <<"OrganizationService", m>>
    BY <1>3, Entries DEF Stub, OrgStub
  <2> QED
    BY <1>3, <2>1 DEF Dispatch, OrgDesc, OrgMethodHandler
<1>4. CASE m \in TemplateService
  <2>1. Stub(m) = <<"TemplateService", m>>
    BY <1>4, Entries DEF Stub, TemplateStub
  <2> QED
    BY <1>4, <2>1 DEF Dispatch, TemplateDesc, TemplateMethodHandler
<1> QED
  BY <1>1, <1>2, <1>3, <1>4 DEF Method

\* What the handler of m asks its stub for is m, and the interceptor is shown the
\* name that the stub sent (api/gen/buildapi/v1).
LEMMA NamesAgree ==
  \A m \in Method : Dispatch(Stub(m)) = [runs |-> m, fullMethod |-> Stub(m)]
BY Stubs

\* Every path field that request_M sets is at one place of the pattern of M, and
\* the pattern has no other.
Placed(p, fields) ==
  /\ Len(p) \in Nat
  /\ \A f \in fields : f \in PathField /\ \E i \in 1 .. Len(p) : p[i] = f
  /\ \A i \in 1 .. Len(p) : p[i] \in PathField => p[i] \in fields
  /\ \A i, j \in 1 .. Len(p) : p[i] = p[j] /\ p[i] \in PathField => i = j

\* The four families of patterns.
OfNamespace(p) ==
  /\ Len(p) \in {4, 5, 6} /\ p[2] = "namespaces" /\ p[3] = "{namespace}"
  /\ Len(p) = 4 \/ p[5] = "{name}"

OfOrganization(p) ==
  /\ Len(p) \in {2, 3, 4} /\ p[2] = "organizations"
  /\ Len(p) # 3 \/ p[3] = "{id}"
  /\ Len(p) # 4 \/ p[3] = "{organization_id}"

OfAccount(p) ==
  Len(p) \in {3, 4} /\ p[2] = "auth" /\ (Len(p) = 3 \/ p[4] = "{id}")

OfHealth(p) == Len(p) = 2 /\ p[2] = "health"

Shaped(p, fields) ==
  /\ Placed(p, fields)
  /\ OfNamespace(p) \/ OfOrganization(p) \/ OfAccount(p) \/ OfHealth(p)

LEMMA TuplesPlaced ==
  ASSUME NEW a, NEW b, NEW c, NEW d, NEW f \in PathField, NEW g \in PathField, f # g,
         a \notin PathField, b \notin PathField, c \notin PathField, d \notin PathField
  PROVE  /\ Placed(<<a, b>>, {}) /\ Placed(<<a, b, c>>, {})
         /\ Placed(<<a, b, f>>, {f}) /\ Placed(<<a, b, f, c>>, {f})
         /\ Placed(<<a, b, c, f>>, {f})
         /\ Placed(<<a, b, f, c, g>>, {f, g}) /\ Placed(<<a, b, f, c, g, d>>, {f, g})
<1>1. Placed(<<a, b>>, {}) /\ Placed(<<a, b, c>>, {})
  BY DEF Placed
<1>2. Placed(<<a, b, f>>, {f}) /\ Placed(<<a, b, f, c>>, {f})
  BY DEF Placed
<1>3. Placed(<<a, b, c, f>>, {f})
  BY DEF Placed
<1>4. Placed(<<a, b, f, c, g>>, {f, g})
  BY DEF Placed
<1>5. Placed(<<a, b, f, c, g, d>>, {f, g})
  BY DEF Placed
<1> QED
  BY <1>1, <1>2, <1>3, <1>4, <1>5

\* The words of the patterns.
Word == {"v1", "auth", "register", "login", "me", "refresh", "api-keys", "health",
         "namespaces", "builders", "wake", "templates", "organizations", "members"}

LEMMA WordsAreNoFields == \A w \in Word : w \notin PathField
BY DEF Word, PathField

LEMMA NamespaceShapes ==
  ASSUME NEW w \in Word
  PROVE  /\ Shaped(<<"v1", "namespaces", "{namespace}", w>>, {"{namespace}"})
         /\ Shaped(<<"v1", "namespaces", "{namespace}", w, "{name}">>,
                   {"{namespace}", "{name}"})
         /\ Shaped(<<"v1", "namespaces", "{namespace}", w, "{name}", "wake">>,
                   {"{namespace}", "{name}"})
<1>1. /\ {"v1", "namespaces", "wake"} \cap PathField = {} /\ w \notin PathField
      /\ "{namespace}" \in PathField /\ "{name}" \in PathField
  BY WordsAreNoFields DEF Word, PathField
<1>2. /\ Placed(<<"v1", "namespaces", "{namespace}", w>>, {"{namespace}"})
      /\ Placed(<<"v1", "namespaces", "{namespace}", w, "{name}">>,
                {"{namespace}", "{name}"})
      /\ Placed(<<"v1", "namespaces", "{namespace}", w, "{name}", "wake">>,
                {"{namespace}", "{name}"})
  BY <1>1, TuplesPlaced
<1>3. /\ OfNamespace(<<"v1", "namespaces", "{namespace}", w>>)
      /\ OfNamespace(<<"v1", "namespaces", "{namespace}", w, "{name}">>)
      /\ OfNamespace(<<"v1", "namespaces", "{namespace}", w, "{name}", "wake">>)
  BY DEF OfNamespace
<1> QED
  BY <1>2, <1>3 DEF Shaped

LEMMA OtherShapes ==
  ASSUME NEW w \in Word
  PROVE  /\ Shaped(<<"v1", "health">>, {})
         /\ Shaped(<<"v1", "auth", w>>, {})
         /\ Shaped(<<"v1", "auth", "api-keys", "{id}">>, {"{id}"})
         /\ Shaped(<<"v1", "organizations">>, {})
         /\ Shaped(<<"v1", "organizations", "{id}">>, {"{id}"})
         /\ Shaped(<<"v1", "organizations", "{organization_id}", "members">>,
                   {"{organization_id}"})
<1>1. /\ {"v1", "health", "auth", "api-keys", "organizations", "members"} \cap PathField = {}
      /\ w \notin PathField
      /\ "{id}" \in PathField /\ "{organization_id}" \in PathField
      /\ "{name}" \in PathField /\ "{name}" # "{id}" /\ "{name}" # "{organization_id}"
  BY WordsAreNoFields DEF Word, PathField
<1>2. /\ Placed(<<"v1", "health">>, {})
      /\ Placed(<<"v1", "auth", w>>, {})
      /\ Placed(<<"v1", "auth", "api-keys", "{id}">>, {"{id}"})
      /\ Placed(<<"v1", "organizations">>, {})
      /\ Placed(<<"v1", "organizations", "{id}">>, {"{id}"})
      /\ Placed(<<"v1", "organizations", "{organization_id}", "members">>,
                {"{organization_id}"})
  BY <1>1, TuplesPlaced
<1>3. /\ OfHealth(<<"v1", "health">>)
      /\ OfAccount(<<"v1", "auth", w>>)
      /\ OfAccount(<<"v1", "auth", "api-keys", "{id}">>)
      /\ OfOrganization(<<"v1", "organizations">>)
      /\ OfOrganization(<<"v1", "organizations", "{id}">>)
      /\ OfOrganization(<<"v1", "organizations", "{organization_id}", "members">>)
  BY DEF OfHealth, OfAccount, OfOrganization
<1> QED
  BY <1>2, <1>3 DEF Shaped

LEMMA AuthShaped ==
  ASSUME NEW m \in AuthService
  PROVE  Shaped(AuthPattern[m], AuthRequest[m].fields)
<1>1. CASE m = "Register"
  <2>1. AuthPattern[m] = <<"v1", "auth", "register">> /\ AuthRequest[m].fields = {}
    BY <1>1 DEF AuthPattern, AuthRequest, AuthService
  <2>2. "register" \in Word
    BY DEF Word
  <2> QED
    BY <2>1, <2>2, OtherShapes
<1>2. CASE m = "Login"
  <2>1. AuthPattern[m] = <<"v1", "auth", "login">> /\ AuthRequest[m].fields = {}
    BY <1>2 DEF AuthPattern, AuthRequest, AuthService
  <2>2. "login" \in Word
    BY DEF Word
  <2> QED
    BY <2>1, <2>2, OtherShapes
<1>3. CASE m = "GetMe"
  <2>1. AuthPattern[m] = <<"v1", "auth", "me">> /\ AuthRequest[m].fields = {}
    BY <1>3 DEF AuthPattern, AuthRequest, AuthService
  <2>2. "me" \in Word
    BY DEF Word
  <2> QED
    BY <2>1, <2>2, OtherShapes
<1>4. CASE m = "UpdateProfile"
  <2>1. AuthPattern[m] = <<"v1", "auth", "me">> /\ AuthRequest[m].fields = {}
    BY <1>4 DEF AuthPattern, AuthRequest, AuthService
  <2>2. "me" \in Word
    BY DEF Word
  <2> QED
    BY <2>1, <2>2, OtherShapes
<1>5. CASE m = "RefreshToken"
  <2>1. AuthPattern[m] = <<"v1", "auth", "refresh">> /\ AuthRequest[m].fields = {}
    BY <1>5 DEF AuthPattern, AuthRequest, AuthService
  <2>2. "refresh" \in Word
    BY DEF Word
  <2> QED
    BY <2>1, <2>2, OtherShapes
<1>6. CASE m = "CreateUserApiKey"
  <2>1. AuthPattern[m] = <<"v1", "auth", "api-keys">> /\ AuthRequest[m].fields = {}
    BY <1>6 DEF AuthPattern, AuthRequest, AuthService
  <2>2. "api-keys" \in Word
    BY DEF Word
  <2> QED
    BY <2>1, <2>2, OtherShapes
<1>7. CASE m = "ListUserApiKeys"
  <2>1. AuthPattern[m] = <<"v1", "auth", "api-keys">> /\ AuthRequest[m].fields = {}
    BY <1>7 DEF AuthPattern, AuthRequest, AuthService
  <2>2. "api-keys" \in Word
    BY DEF Word
  <2> QED
    BY <2>1, <2>2, OtherShapes
<1>8. CASE m = "RevokeUserApiKey"
  <2>1. AuthPattern[m] = <<"v1", "auth", "api-keys", "{id}">> /\ AuthRequest[m].fields = {"{id}"}
    BY <1>8 DEF AuthPattern, AuthRequest, AuthService
  <2>2. "api-keys" \in Word
    BY DEF Word
  <2> QED
    BY <2>1, <2>2, OtherShapes
<1> QED
  BY <1>1, <1>2, <1>3, <1>4, <1>5, <1>6, <1>7, <1>8 DEF AuthService

LEMMA BuildShaped ==
  ASSUME NEW m \in BuildAPI
  PROVE  Shaped(BuildPattern[m], BuildRequest[m].fields)
<1>1. CASE m = "ListBuilders"
  <2>1. BuildPattern[m] = <<"v1", "namespaces", "{namespace}", "builders">> /\ BuildRequest[m].fields = {"{namespace}"}
    BY <1>1 DEF BuildPattern, BuildRequest, BuildAPI
  <2>2. "builders" \in Word
    BY DEF Word
  <2> QED
    BY <2>1, <2>2, NamespaceShapes
<1>2. CASE m = "GetBuilder"
  <2>1. BuildPattern[m] = <<"v1", "namespaces", "{namespace}", "builders", "{name}">> /\ BuildRequest[m].fields = {"{namespace}", "{name}"}
    BY <1>2 DEF BuildPattern, BuildRequest, BuildAPI
  <2>2. "builders" \in Word
    BY DEF Word
  <2> QED
    BY <2>1, <2>2, NamespaceShapes
<1>3. CASE m = "CreateBuilder"
  <2>1. BuildPattern[m] = <<"v1", "namespaces", "{namespace}", "builders">> /\ BuildRequest[m].fields = {"{namespace}"}
    BY <1>3 DEF BuildPattern, BuildRequest, BuildAPI
  <2>2. "builders" \in Word
    BY DEF Word
  <2> QED
    BY <2>1, <2>2, NamespaceShapes
<1>4. CASE m = "UpdateBuilder"
  <2>1. BuildPattern[m] = <<"v1", "namespaces", "{namespace}", "builders", "{name}">> /\ BuildRequest[m].fields = {"{namespace}", "{name}"}
    BY <1>4 DEF BuildPattern, BuildRequest, BuildAPI
  <2>2. "builders" \in Word
    BY DEF Word
  <2> QED
    BY <2>1, <2>2, NamespaceShapes
<1>5. CASE m = "DeleteBuilder"
  <2>1. BuildPattern[m] = <<"v1", "namespaces", "{namespace}", "builders", "{name}">> /\ BuildRequest[m].fields = {"{namespace}", "{name}"}
    BY <1>5 DEF BuildPattern, BuildRequest, BuildAPI
  <2>2. "builders" \in Word
    BY DEF Word
  <2> QED
    BY <2>1, <2>2, NamespaceShapes
<1>6. CASE m = "WakeBuilder"
  <2>1. BuildPattern[m] = <<"v1", "namespaces", "{namespace}", "builders", "{name}", "wake">> /\ BuildRequest[m].fields = {"{namespace}", "{name}"}
    BY <1>6 DEF BuildPattern, BuildRequest, BuildAPI
  <2>2. "builders" \in Word
    BY DEF Word
  <2> QED
    BY <2>1, <2>2, NamespaceShapes
<1>7. CASE m = "HealthCheck"
  <2>1. BuildPattern[m] = <<"v1", "health">> /\ BuildRequest[m].fields = {}
    BY <1>7 DEF BuildPattern, BuildRequest, BuildAPI
  <2>2. "v1" \in Word
    BY DEF Word
  <2> QED
    BY <2>1, <2>2, OtherShapes
<1> QED
  BY <1>1, <1>2, <1>3, <1>4, <1>5, <1>6, <1>7 DEF BuildAPI

LEMMA OrgShaped ==
  ASSUME NEW m \in OrganizationService
  PROVE  Shaped(OrgPattern[m], OrgRequest[m].fields)
<1>1. CASE m = "ListOrganizations"
  <2>1. OrgPattern[m] = <<"v1", "organizations">> /\ OrgRequest[m].fields = {}
    BY <1>1 DEF OrgPattern, OrgRequest, OrganizationService
  <2>2. "v1" \in Word
    BY DEF Word
  <2> QED
    BY <2>1, <2>2, OtherShapes
<1>2. CASE m = "GetOrganization"
  <2>1. OrgPattern[m] = <<"v1", "organizations", "{id}">> /\ OrgRequest[m].fields = {"{id}"}
    BY <1>2 DEF OrgPattern, OrgRequest, OrganizationService
  <2>2. "v1" \in Word
    BY DEF Word
  <2> QED
    BY <2>1, <2>2, OtherShapes
<1>3. CASE m = "CreateOrganization"
  <2>1. OrgPattern[m] = <<"v1", "organizations">> /\ OrgRequest[m].fields = {}
    BY <1>3 DEF OrgPattern, OrgRequest, OrganizationService
  <2>2. "v1" \in Word
    BY DEF Word
  <2> QED
    BY <2>1, <2>2, OtherShapes
<1>4. CASE m = "UpdateOrganization"
  <2>1. OrgPattern[m] = <<"v1", "organizations", "{id}">> /\ OrgRequest[m].fields = {"{id}"}
    BY <1>4 DEF OrgPattern, OrgRequest, OrganizationService
  <2>2. "v1" \in Word
    BY DEF Word
  <2> QED
    BY <2>1, <2>2, OtherShapes
<1>5. CASE m = "DeleteOrganization"
  <2>1. OrgPattern[m] = <<"v1", "organizations", "{id}">> /\ OrgRequest[m].fields = {"{id}"}
    BY <1>5 DEF OrgPattern, OrgRequest, OrganizationService
  <2>2. "v1" \in Word
    BY DEF Word
  <2> QED
    BY <2>1, <2>2, OtherShapes
<1>6. CASE m = "ListOrganizationMembers"
  <2>1. OrgPattern[m] = <<"v1", "organizations", "{organization_id}", "members">> /\ OrgRequest[m].fields = {"{organization_id}"}
    BY <1>6 DEF OrgPattern, OrgRequest, OrganizationService
  <2>2. "v1" \in Word
    BY DEF Word
  <2> QED
    BY <2>1, <2>2, OtherShapes
<1> QED
  BY <1>1, <1>2, <1>3, <1>4, <1>5, <1>6 DEF OrganizationService

LEMMA TemplateShaped ==
  ASSUME NEW m \in TemplateService
  PROVE  Shaped(TemplatePattern[m], TemplateRequest[m].fields)
<1>1. CASE m = "ListTemplates"
  <2>1. TemplatePattern[m] = <<"v1", "namespaces", "{namespace}", "templates">> /\ TemplateRequest[m].fields = {"{namespace}"}
    BY <1>1 DEF TemplatePattern, TemplateRequest, TemplateService
  <2>2. "templates" \in Word
    BY DEF Word
  <2> QED
    BY <2>1, <2>2, NamespaceShapes
<1>2. CASE m = "GetTemplate"
  <2>1. TemplatePattern[m] = <<"v1", "namespaces", "{namespace}", "templates", "{name}">> /\ TemplateRequest[m].fields = {"{namespace}", "{name}"}
    BY <1>2 DEF TemplatePattern, TemplateRequest, TemplateService
  <2>2. "templates" \in Word
    BY DEF Word
  <2> QED
    BY <2>1, <2>2, NamespaceShapes
<1>3. CASE m = "CreateTemplate"
  <2>1. TemplatePattern[m] = <<"v1", "namespaces", "{namespace}", "templates">> /\ TemplateRequest[m].fields = {"{namespace}"}
    BY <1>3 DEF TemplatePattern, TemplateRequest, TemplateService
  <2>2. "templates" \in Word
    BY DEF Word
  <2> QED
    BY <2>1, <2>2, NamespaceShapes
<1>4. CASE m = "UpdateTemplate"
  <2>1. TemplatePattern[m] = <<"v1", "namespaces", "{namespace}", "templates", "{name}">> /\ TemplateRequest[m].fields = {"{namespace}", "{name}"}
    BY <1>4 DEF TemplatePattern, TemplateRequest, TemplateService
  <2>2. "templates" \in Word
    BY DEF Word
  <2> QED
    BY <2>1, <2>2, NamespaceShapes
<1>5. CASE m = "DeleteTemplate"
  <2>1. TemplatePattern[m] = <<"v1", "namespaces", "{namespace}", "templates", "{name}">> /\ TemplateRequest[m].fields = {"{namespace}", "{name}"}
    BY <1>5 DEF TemplatePattern, TemplateRequest, TemplateService
  <2>2. "templates" \in Word
    BY DEF Word
  <2> QED
    BY <2>1, <2>2, NamespaceShapes
<1> QED
  BY <1>1, <1>2, <1>3, <1>4, <1>5 DEF TemplateService

\* Every pattern says where its fields are.
LEMMA PatternsShaped ==
  ASSUME NEW m \in Method
  PROVE  Shaped(Pattern(m), RequestFunc(m).fields)
<1>1. CASE m \in AuthService
  <2>1. Pattern(m) = AuthPattern[m] /\ RequestFunc(m) = AuthRequest[m]
    BY <1>1, Entries DEF Pattern, RequestFunc
  <2> QED
    BY <1>1, <2>1, AuthShaped
<1>2. CASE m \in BuildAPI
  <2>1. Pattern(m) = BuildPattern[m] /\ RequestFunc(m) = BuildRequest[m]
    BY <1>2, Entries DEF Pattern, RequestFunc
  <2> QED
    BY <1>2, <2>1, BuildShaped
<1>3. CASE m \in OrganizationService
  <2>1. Pattern(m) = OrgPattern[m] /\ RequestFunc(m) = OrgRequest[m]
    BY <1>3, Entries DEF Pattern, RequestFunc
  <2> QED
    BY <1>3, <2>1, OrgShaped
<1>4. CASE m \in TemplateService
  <2>1. Pattern(m) = TemplatePattern[m] /\ RequestFunc(m) = TemplateRequest[m]
    BY <1>4, Entries DEF Pattern, RequestFunc
  <2> QED
    BY <1>4, <2>1, TemplateShaped
<1> QED
  BY <1>1, <1>2, <1>3, <1>4 DEF Method

-----------------------------------------------------------------------------
(* Paths *)

LEMMA SecondSegment ==
  ASSUME NEW p, NEW path, PathMatches(p, path), Len(p) \in {2, 3, 4, 5, 6},
         p[2] \notin PathField
  PROVE  Len(path) = Len(p) /\ path[2] = p[2]
<1>1. 2 \in 1 .. Len(p)
  OBVIOUS
<1> QED
  BY <1>1 DEF PathMatches

\* A path that matches names resources where the pattern has its fields.
LEMMA NamesInPattern ==
  ASSUME NEW p, NEW fields, Shaped(p, fields), NEW path, PathMatches(p, path),
         NEW i \in 1 .. Len(path), NEW f \in PathField, Names(path, i, f)
  PROVE  i \in 1 .. Len(p) /\ p[i] = f
<1>1. {"namespaces", "organizations", "auth", "health"} \cap PathField = {}
  BY DEF PathField
<1>2. CASE OfNamespace(p)
  <2>1. Len(path) = Len(p) /\ path[2] = "namespaces"
    <3>1. Len(p) \in {2, 3, 4, 5, 6} /\ p[2] = "namespaces"
      BY <1>2 DEF OfNamespace
    <3> QED
      BY <1>1, <3>1, SecondSegment
  <2>2. (i = 3 /\ f = "{namespace}") \/ (i = 5 /\ f = "{name}")
    BY <2>1 DEF Names
  <2>3. i = 5 => Len(path) # 4
    <3>1. 5 \notin 1 .. 4
      OBVIOUS
    <3> QED
      BY <3>1, Zenon
  <2> QED
    BY <1>2, <2>1, <2>2, <2>3 DEF OfNamespace
<1>3. CASE OfOrganization(p)
  <2>1. Len(path) = Len(p) /\ path[2] = "organizations"
    <3>1. Len(p) \in {2, 3, 4, 5, 6} /\ p[2] = "organizations"
      BY <1>3 DEF OfOrganization
    <3> QED
      BY <1>1, <3>1, SecondSegment
  <2> QED
    BY <1>3, <2>1 DEF OfOrganization, Names
<1>4. CASE OfAccount(p)
  <2>1. Len(path) = Len(p) /\ path[2] = "auth"
    <3>1. Len(p) \in {2, 3, 4, 5, 6} /\ p[2] = "auth"
      BY <1>4 DEF OfAccount
    <3> QED
      BY <1>1, <3>1, SecondSegment
  <2>2. i = 4 /\ f = "{id}"
    BY <2>1 DEF Names
  <2>3. Len(path) # 3
    <3>1. 4 \notin 1 .. 3
      OBVIOUS
    <3> QED
      BY <2>2, <3>1, Zenon
  <2> QED
    BY <1>4, <2>1, <2>2, <2>3 DEF OfAccount
<1>5. CASE OfHealth(p)
  <2>1. Len(path) = Len(p) /\ path[2] = "health"
    <3>1. Len(p) \in {2, 3, 4, 5, 6} /\ p[2] = "health"
      BY <1>5 DEF OfHealth
    <3> QED
      BY <1>1, <3>1, SecondSegment
  <2> QED
    BY <1>5, <2>1 DEF OfHealth, Names
<1> QED
  BY <1>2, <1>3, <1>4, <1>5 DEF Shaped

\* What the request function of m takes from the path, it takes from the segment
\* in the place of the field.
LEMMA BoundInPath ==
  ASSUME NEW m \in Method, NEW path, PathMatches(Pattern(m), path),
         NEW f \in RequestFunc(m).fields
  PROVE  \E i \in 1 .. Len(path) :
           /\ Pattern(m)[i] = f /\ Bound(m, path, f) = path[i]
           /\ \A j \in 1 .. Len(path) : Pattern(m)[j] = f => j = i
<1> DEFINE i == CHOOSE i \in 1 .. Len(path) : Pattern(m)[i] = f
<1>1. Placed(Pattern(m), RequestFunc(m).fields) /\ Len(Pattern(m)) = Len(path)
  BY PatternsShaped DEF Shaped, PathMatches
<1>2. f \in PathField /\ \E j \in 1 .. Len(path) : Pattern(m)[j] = f
  BY <1>1 DEF Placed
<1>3. i \in 1 .. Len(path) /\ Pattern(m)[i] = f
  BY <1>2
<1>4. Bound(m, path, f) = path[i]
  BY DEF Bound
<1>5. \A j \in 1 .. Len(path) : Pattern(m)[j] = f => j = i
  BY <1>1, <1>2, <1>3 DEF Placed
<1> QED
  BY <1>3, <1>4, <1>5

\* A message says of every resource that the path names what the path says.
LEMMA FilledFromPath ==
  ASSUME NEW m \in Method, NEW path, NEW body, PathMatches(Pattern(m), path),
         NEW i \in 1 .. Len(path), NEW f \in PathField, Names(path, i, f)
  PROVE  Filled(m, path, body)[f] = path[i]
<1>1. Placed(Pattern(m), RequestFunc(m).fields)
  BY PatternsShaped DEF Shaped
<1>2. i \in 1 .. Len(Pattern(m)) /\ Pattern(m)[i] = f
  BY PatternsShaped, NamesInPattern
<1>3. f \in RequestFunc(m).fields
  BY <1>1, <1>2 DEF Placed
<1>4. Bound(m, path, f) = path[i]
  BY <1>2, <1>3, BoundInPath
<1> QED
  BY <1>3, <1>4 DEF Filled

LEMMA FilledType ==
  ASSUME NEW m \in Method, NEW path \in Path, NEW body \in [PathField -> Segment],
         PathMatches(Pattern(m), path)
  PROVE  Filled(m, path, body) \in [PathField -> Segment]
<1>1. ASSUME NEW f \in RequestFunc(m).fields
      PROVE  Bound(m, path, f) \in Segment
  <2>1. path \in Seq(Segment)
    BY GatewayAssumption
  <2>2. PICK i \in 1 .. Len(path) : Bound(m, path, f) = path[i]
    BY BoundInPath
  <2> QED
    BY <2>1, <2>2
<1> QED
  BY <1>1, GatewayAssumption DEF Filled

-----------------------------------------------------------------------------
(* The gateway does nothing to sessions that requests could not do *)

LEMMA GatewayInit == GInit => Init
BY DEF GInit

LEMMA GatewaySteps == [GNext]_gvars => [Next]_vars
<1> SUFFICES ASSUME [GNext]_gvars PROVE [Next]_vars
  OBVIOUS
<1>1. ASSUME NEW r \in Request, Forward(r) \/ Work(r)
      PROVE  Next
  BY <1>1 DEF Forward, Work, Handler, Next
<1>2. ASSUME NEW r \in Request,
             \/ Browse(r) \/ Receive(r) \/ Preflight(r) \/ Health(r) \/ Logout(r)
             \/ NotRouted(r) \/ NotForwarded(r)
      PROVE  UNCHANGED vars
  BY <1>2 DEF Browse, Receive, Preflight, Health, Logout, NotRouted, NotForwarded,
              AnswerHere
<1>3. CASE Around
  BY <1>3 DEF Around, Next
<1>4. CASE UNCHANGED gvars
  BY <1>4 DEF gvars
<1> QED
  BY <1>1, <1>2, <1>3, <1>4 DEF GNext

\* All that Sessions promises holds behind the gateway too (cmd/server/main.go).
THEOREM GatewayKeepsSessions == GSpec => Spec
BY GatewayInit, GatewaySteps, PTL DEF GSpec, Spec

LEMMA SessionsInvariant == GSpec => []IInv
BY GatewayKeepsSessions, Inductive, PTL

-----------------------------------------------------------------------------
(* What a step leaves alone *)

\* Nothing of q moved but, perhaps, its place.
LEMMA WebFrame ==
  ASSUME GTypeOK, NEW r \in Request, NEW q \in Request, q # r,
         \/ Browse(r) \/ Receive(r) \/ Preflight(r) \/ Health(r) \/ Logout(r)
         \/ NotRouted(r) \/ NotForwarded(r) \/ Forward(r) \/ Work(r)
  PROVE  /\ at'[q] = at[q] /\ http'[q] = http[q] /\ status'[q] = status[q]
         /\ message'[q] = message[q] /\ granted'[q] = granted[q] /\ jarOf'[q] = jarOf[q]
BY DEF GTypeOK, Browse, Receive, Preflight, Health, Logout, NotRouted, NotForwarded,
       AnswerHere, Forward, Work

\* The steps that are not steps of Sessions.
Outside(r) ==
  \/ Browse(r) \/ Receive(r) \/ Preflight(r) \/ Health(r) \/ Logout(r)
  \/ NotRouted(r) \/ NotForwarded(r)

LEMMA OutsideFrame ==
  ASSUME NEW r \in Request, Outside(r)
  PROVE  UNCHANGED <<vars, message, granted>>
BY DEF Outside, Browse, Receive, Preflight, Health, Logout, NotRouted, NotForwarded,
       AnswerHere

LEMMA AnsweringFrame ==
  ASSUME GTypeOK, NEW r \in Request,
         Preflight(r) \/ Health(r) \/ Logout(r) \/ NotRouted(r) \/ NotForwarded(r)
  PROVE  /\ at[r] = "sent" /\ at' = [at EXCEPT ![r] = "answered"]
         /\ UNCHANGED <<vars, jar, http, message, granted, setBy, jarOf>>
         /\ \E st \in {"OK", "NoContent", "LoggedOut", "NotFound", "InvalidArgument",
                       "Unavailable"} : status' = [status EXCEPT ![r] = st]
BY DEF Preflight, Health, Logout, NotRouted, NotForwarded, AnswerHere

\* A call is sent to Sessions.
LEMMA Forwarding ==
  ASSUME IInv, GTypeOK, Stages, NEW r \in Request, Forward(r)
  PROVE  /\ Handler(r) /\ pc[r] = "idle" /\ pc'[r] # "idle" /\ at[r] = "sent"
         /\ http[r] \in HTTPType /\ http[r].ask \in HTTPCall[r]
         /\ \E m \in Route[http[r].ask] :
              /\ call'[r] = Asked(m, http[r].ask)
              /\ cred'[r] = Presented(call'[r].method, http[r])
              /\ message' = [message EXCEPT ![r] =
                               Filled(m, http[r].ask.path, http[r].ask.fields)]
         /\ cred'[r] \in Credential
         /\ cred'[r] \in Token => cred'[r] \in tokens'
<1>1. Handler(r) /\ pc[r] = "idle" /\ at[r] = "sent"
  BY DEF Forward, Send, Handler
<1>2. http[r] \in HTTPType /\ http[r].ask \in HTTPCall[r]
  BY <1>1 DEF Stages
<1>3. PICK c \in Call :
        /\ call' = [call EXCEPT ![r] = c]
        /\ \E given \in Presentable(c.method) : cred' = [cred EXCEPT ![r] = given]
  BY DEF Forward, Send
<1>4. PICK given \in Presentable(c.method) : cred' = [cred EXCEPT ![r] = given]
  BY <1>3
<1>5. call'[r] = c /\ cred'[r] = given /\ tokens' = tokens
  BY <1>3, <1>4 DEF IInv, TypeOK, Forward, Send, client
<1>6. /\ \E m \in Route[http[r].ask] :
           /\ call'[r] = Asked(m, http[r].ask)
           /\ message' = [message EXCEPT ![r] =
                            Filled(m, http[r].ask.path, http[r].ask.fields)]
      /\ cred'[r] = Presented(call'[r].method, http[r])
  BY DEF Forward, IInv, TypeOK
<1>7. given \in tokens \cup secrets \cup Unissued \cup {NoCredential}
  BY DEF Presentable
<1>8. given \in Credential /\ (given \in Token => given \in tokens)
  BY <1>7, SessionsAssumption DEF IInv, TypeOK, Credential
<1>9. pc'[r] # "idle"
  BY DEF Forward, Send, Enter, Goto, Reply, IInv, TypeOK
<1> QED
  BY <1>1, <1>2, <1>5, <1>6, <1>8, <1>9

\* A step of a call that was forwarded.
LEMMA Working ==
  ASSUME IInv, GTypeOK, Stages, NEW r \in Request, Work(r)
  PROVE  /\ Handler(r) /\ at[r] = "forwarded"
         /\ pc[r] \notin {"idle", "done"} /\ pc'[r] # "idle" /\ code[r] = "none"
         /\ SameRequest(r)
         /\ UNCHANGED <<jar, at, http, status, message, setBy, jarOf>>
<1>1. Handler(r) /\ at[r] = "forwarded" /\ pc[r] # "idle"
  BY DEF Work, Stages
<1>2. pc[r] # "done" /\ SameRequest(r)
  BY <1>1, HandlerMoves, HandlerFrame DEF IInv
<1>3. code[r] = "none"
  BY <1>2 DEF IInv, Progress
<1>4. pc'[r] # "idle"
  <2>1. pc'[r] \in Step \cup {"done"}
    BY <1>1, HandlerMoves DEF Goto, Reply, IInv, TypeOK
  <2> QED
    BY <2>1 DEF Step
<1> QED
  BY <1>1, <1>2, <1>3, <1>4 DEF Work

\* Who is granted a token: a user who signed in, or went on with a session.
LEMMA Granting ==
  ASSUME IInv, GTypeOK, Stages, NEW r \in Request, Work(r), granted'[r] # granted[r]
  PROVE  /\ code'[r] = "OK" /\ pc'[r] = "done"
         /\ call'[r].method \in SignInMethods
         /\ granted'[r] \in tokens' /\ granted'[r].type = "access"
         /\ granted'[r].user = SignedUser(r)'
         /\ granted'[r].exp <= now' + AccessTokenExpiry
<1>1. /\ Handler(r) /\ code[r] = "none" /\ call'[r] = call[r] /\ cred'[r] = cred[r]
      /\ TypeOK /\ Progress /\ now' = now
  BY Working, HandlerMoves DEF SameRequest, IInv
<1>2. /\ code'[r] = "OK"
      /\ \/ /\ pc[r] = "issue"
            /\ granted'[r] = AccessToken(userID[r])
         \/ /\ pc[r] # "issue" /\ call[r].method = "RefreshToken"
            /\ granted'[r] = AccessToken(cred[r].user)
  BY DEF Work, GTypeOK
<1>3. CASE pc[r] = "issue"
  <2>1. Issue(r)
    BY <1>1, <1>3 DEF Handler, Send, AuthenticateJWT, LookupAPIKey, Touch, Fails, Register,
       Login, Issue, RefreshToken, Profile, CreateUserApiKey, RevokeUserApiKey, Serve, Handles
  <2>2. call[r].method \in {"Register", "Login"}
    BY <1>1, <1>3 DEF Progress
  <2>3. /\ pc'[r] = "done" /\ userID'[r] = userID[r]
        /\ AccessToken(userID[r]) \in tokens'
    BY <1>1, <2>1 DEF Issue, Reply, TypeOK
  <2> QED
    BY <1>1, <1>2, <1>3, <2>2, <2>3, SessionsAssumption
    DEF SignInMethods, SignedUser, AccessToken, TypeOK
<1>4. CASE pc[r] # "issue"
  <2>1. call[r].method = "RefreshToken" /\ pc'[r] = "done"
    BY <1>1, <1>2, <1>4, HandlerMoves DEF Goto, Reply, TypeOK
  <2>2. pc[r] = "handler" \/ pc[r] \in {"authenticate", "touch"}
    BY <1>1, <1>4, Working DEF TypeOK, Step
  <2>3. pc[r] = "handler"
    BY <1>1, <2>1, <2>2 DEF Progress, PublicMethods
  <2>4. RefreshToken(r)
    BY <1>1, <2>1, <2>3 DEF Handler, Send, AuthenticateJWT, LookupAPIKey, Touch, Fails,
       Register, Login, Issue, Profile, CreateUserApiKey, RevokeUserApiKey, Serve, Handles,
       ScopedMethods, MethodRequiredScope
  <2>5. AccessToken(cred[r].user) \in tokens'
    BY <1>1, <1>2, <2>4 DEF RefreshToken, Reply, TypeOK
  <2> QED
    BY <1>1, <1>2, <1>4, <2>1, <2>5, SessionsAssumption
    DEF SignInMethods, SignedUser, AccessToken, TypeOK
<1> QED
  BY <1>3, <1>4

-----------------------------------------------------------------------------
(* The shape of the state *)

LEMMA RouteOf ==
  ASSUME NEW r \in Request, NEW h \in HTTPCall[r], NEW m \in Route[h]
  PROVE  m \in Method /\ Verb(m) = h.verb /\ PathMatches(Pattern(m), h.path)
         /\ Asked(m, h).method = m
<1>1. h \in UNION {HTTPCall[q] : q \in Request}
  OBVIOUS
<1>2. m \in Matching(h.verb, h.path) /\ ForGateway(h)
  BY <1>1 DEF Route
<1>3. m \in Method /\ Verb(m) = h.verb /\ PathMatches(Pattern(m), h.path)
  BY <1>2 DEF Matching
<1>4. Dispatch(Stub(m)).runs = m
  BY <1>3, NamesAgree
<1>5. h.content \in CallType
  <2>1. HTTPCall[r] \subseteq HTTPCallType
    BY GatewayAssumption
  <2> QED
    BY <2>1, SessionsAssumption DEF HTTPCallType
<1> QED
  BY <1>3, <1>4, <1>5 DEF Asked, CallType

LEMMA CookieType ==
  ASSUME GTypeOK, NEW b \in Browser
  PROVE  CookieOf(b) \in Token \cup {NoCredential}
BY DEF GTypeOK, CookieOf, Cookie

LEMMA BrowseType ==
  ASSUME IInv, GTypeOK, NEW r \in Request, Browse(r)
  PROVE  /\ GTypeOK' /\ at[r] = "idle" /\ at' = [at EXCEPT ![r] = "sent"]
         /\ \E b \in Browser :
              /\ http'[r].by = b /\ http'[r].cookie = CookieOf(b) /\ jarOf'[r] = setBy[b]
         /\ http'[r] \in HTTPType /\ http'[r].ask \in HTTPCall[r]
         /\ UNCHANGED <<vars, jar, status, message, granted, setBy>>
<1>1. PICK b \in Browser, h \in HTTPCall[r], given \in tokens \cup secrets \cup Unissued :
        /\ http' = [http EXCEPT ![r] = [by |-> b, ask |-> h, given |-> given,
                                        cookie |-> CookieOf(b)]]
        /\ jarOf' = [jarOf EXCEPT ![r] = setBy[b]]
  BY DEF Browse
<1>2. given \in Credential /\ h \in HTTPCallType
  BY SessionsAssumption, GatewayAssumption DEF IInv, TypeOK, Credential
<1>3. [by |-> b, ask |-> h, given |-> given, cookie |-> CookieOf(b)] \in HTTPType
  BY <1>2, CookieType DEF HTTPType
<1>4. http' \in [Request -> HTTPType \cup {NoHTTP}]
  BY <1>1, <1>3 DEF GTypeOK
<1>5. jarOf' \in [Request -> Request \cup {NoRequest}]
  BY <1>1 DEF GTypeOK
<1>6. http'[r] = [by |-> b, ask |-> h, given |-> given, cookie |-> CookieOf(b)]
      /\ jarOf'[r] = setBy[b]
  BY <1>1 DEF GTypeOK
<1>7. /\ UNCHANGED <<vars, jar, status, message, granted, setBy>>
      /\ at[r] = "idle" /\ at' = [at EXCEPT ![r] = "sent"]
  BY DEF Browse
<1>8. GTypeOK'
  BY <1>4, <1>5, <1>7 DEF GTypeOK
<1> QED
  BY <1>3, <1>6, <1>7, <1>8

LEMMA ReceiveType ==
  ASSUME IInv, GTypeOK, NEW r \in Request, http[r] \in HTTPType, Receive(r)
  PROVE  GTypeOK'
<1>1. http[r].by \in Browser /\ now \in Nat /\ CookieMaxAge \in Nat
  BY GatewayAssumption DEF HTTPType, IInv, TypeOK
<1>2. granted[r] # NoCredential
        => [token |-> granted[r], until |-> now + CookieMaxAge] \in Cookie
  BY <1>1 DEF GTypeOK, Cookie
<1>3. jar' \in [Browser -> Cookie \cup {NoCookie}]
  BY <1>1, <1>2 DEF Receive, SignsIn, GTypeOK
<1>4. setBy' \in [Browser -> Request \cup {NoRequest}]
  BY <1>1 DEF Receive, GTypeOK
<1>5. at' \in [Request -> {"idle", "sent", "forwarded", "answered", "over"}]
  BY DEF Receive, GTypeOK
<1>6. UNCHANGED <<http, status, message, granted, jarOf>>
  BY DEF Receive
<1> QED
  BY <1>3, <1>4, <1>5, <1>6 DEF GTypeOK

LEMMA AnsweringType ==
  ASSUME GTypeOK, NEW r \in Request,
         Preflight(r) \/ Health(r) \/ Logout(r) \/ NotRouted(r) \/ NotForwarded(r)
  PROVE  GTypeOK'
<1>1. /\ at' = [at EXCEPT ![r] = "answered"]
      /\ UNCHANGED <<jar, http, message, granted, setBy, jarOf>>
  BY AnsweringFrame
<1>2. PICK st \in {"OK", "NoContent", "LoggedOut", "NotFound", "InvalidArgument",
                   "Unavailable"} : status' = [status EXCEPT ![r] = st]
  BY AnsweringFrame
<1> QED
  BY <1>1, <1>2 DEF GTypeOK

LEMMA ForwardType ==
  ASSUME IInv, GTypeOK, Stages, NEW r \in Request, Forward(r)
  PROVE  GTypeOK'
<1>1. http[r] \in HTTPType /\ http[r].ask \in HTTPCall[r]
  BY Forwarding
<1>2. PICK m \in Route[http[r].ask] :
        message' = [message EXCEPT ![r] = Filled(m, http[r].ask.path, http[r].ask.fields)]
  BY Forwarding
<1>3. http[r].ask.path \in Path /\ http[r].ask.fields \in [PathField -> Segment]
  BY <1>1 DEF HTTPType, HTTPCallType
<1>4. Filled(m, http[r].ask.path, http[r].ask.fields) \in [PathField -> Segment]
  BY <1>1, <1>3, RouteOf, FilledType
<1>5. message' \in [Request -> [PathField -> Segment]]
  BY <1>2, <1>4 DEF GTypeOK
<1>6. /\ at' = [at EXCEPT ![r] = "forwarded"]
      /\ UNCHANGED <<jar, http, status, granted, setBy, jarOf>>
  BY DEF Forward
<1> QED
  BY <1>5, <1>6 DEF GTypeOK

LEMMA WorkType ==
  ASSUME IInv, GTypeOK, Stages, NEW r \in Request, Work(r)
  PROVE  GTypeOK'
<1>1. UNCHANGED <<jar, at, http, status, message, setBy, jarOf>>
  BY Working
<1>2. tokens' \subseteq Token
  BY Working, HandlerType DEF TypeOK
<1>3. granted'[r] \in Token \cup {NoCredential}
  BY <1>2, Granting DEF GTypeOK
<1>4. granted' = [granted EXCEPT ![r] = granted'[r]]
  BY DEF Work, GTypeOK
<1> QED
  BY <1>1, <1>3, <1>4 DEF GTypeOK

-----------------------------------------------------------------------------
(* The parts of the invariant *)

WebStep(r) == Outside(r) \/ Forward(r) \/ Work(r)

\* A request that is over is left alone.
LEMMA OverStays ==
  ASSUME GTypeOK, NEW r \in Request, WebStep(r), NEW q \in Request, at[q] = "over"
  PROVE  /\ q # r /\ at'[q] = "over" /\ http'[q] = http[q] /\ granted'[q] = granted[q]
         /\ jarOf'[q] = jarOf[q]
<1>1. at[r] # "over"
  BY DEF WebStep, Outside, Browse, Receive, Answered, Preflight, Health, Logout, NotRouted,
         NotForwarded, Forward, Work
<1> QED
  BY <1>1, WebFrame DEF WebStep, Outside

LEMMA FromStays ==
  ASSUME GTypeOK, NEW r \in Request, WebStep(r), NEW q, NEW b, NEW t, From(q, b, t)
  PROVE  From(q, b, t)'
BY OverStays DEF From

LEMMA NowGoesOn ==
  ASSUME IInv, NEW r \in Request, WebStep(r)
  PROVE  now' = now /\ now \in Nat
<1>1. now \in Nat
  BY DEF IInv, TypeOK
<1>2. Outside(r) => now' = now
  BY OutsideFrame DEF vars
<1>3. Forward(r) \/ Work(r) => Handler(r)
  BY DEF Forward, Work, Handler
<1> QED
  BY <1>1, <1>2, <1>3, HandlerMoves DEF WebStep

LEMMA StagesStep ==
  ASSUME IInv, GTypeOK, Stages, NEW r \in Request, WebStep(r)
  PROVE  Stages'
<1>1. CASE Browse(r)
  <2>1. /\ at[r] = "idle" /\ at' = [at EXCEPT ![r] = "sent"] /\ pc' = pc
        /\ http'[r] \in HTTPType /\ http'[r].ask \in HTTPCall[r]
    BY <1>1, BrowseType DEF vars
  <2>2. \A q \in Request : q # r => http'[q] = http[q]
    BY <1>1, WebFrame
  <2> QED
    BY <2>1, <2>2 DEF Stages, GTypeOK
<1>2. CASE Receive(r)
  BY <1>2 DEF Receive, Answered, Stages, GTypeOK, vars
<1>3. CASE Preflight(r) \/ Health(r) \/ Logout(r) \/ NotRouted(r) \/ NotForwarded(r)
  BY <1>3, AnsweringFrame DEF Stages, GTypeOK, vars
<1>4. CASE Forward(r)
  <2>1. /\ pc'[r] # "idle" /\ at' = [at EXCEPT ![r] = "forwarded"] /\ http' = http
        /\ http[r] \in HTTPType /\ http[r].ask \in HTTPCall[r]
    BY <1>4, Forwarding DEF Forward
  <2>2. \A q \in Request : q # r => pc'[q] = pc[q]
    BY <1>4, Forwarding, HandlerFrame DEF IInv, Same
  <2> QED
    BY <2>1, <2>2 DEF Stages, GTypeOK
<1>5. CASE Work(r)
  <2>1. pc'[r] # "idle" /\ at[r] = "forwarded" /\ at' = at /\ http' = http
    BY <1>5, Working
  <2>2. \A q \in Request : q # r => pc'[q] = pc[q]
    BY <1>5, Working, HandlerFrame DEF IInv, Same
  <2> QED
    BY <2>1, <2>2 DEF Stages, GTypeOK
<1> QED
  BY <1>1, <1>2, <1>3, <1>4, <1>5 DEF WebStep, Outside

LEMMA AskedStep ==
  ASSUME IInv, GTypeOK, Stages, AskedRightly, NEW r \in Request, WebStep(r)
  PROVE  AskedRightly'
<1>1. CASE Outside(r)
  <2>1. UNCHANGED <<vars, message>>
    BY <1>1, OutsideFrame
  <2>2. \A q \in Request : pc[q] # "idle" => http'[q] = http[q]
    BY <1>1 DEF Outside, Browse, Receive, Preflight, Health, Logout, NotRouted,
                NotForwarded, AnswerHere, Stages, GTypeOK
  <2> QED
    BY <2>1, <2>2 DEF AskedRightly, vars, request
<1>2. CASE Forward(r)
  <2>1. /\ http' = http /\ \A q \in Request : q # r => message'[q] = message[q]
        /\ \A q \in Request : q # r => Same(q)
    BY <1>2, Forwarding, HandlerFrame, WebFrame DEF Forward, IInv
  <2>2. \E m \in Route[http[r].ask] :
          /\ call'[r] = Asked(m, http[r].ask)
          /\ message'[r] = Filled(m, http[r].ask.path, http[r].ask.fields)
          /\ cred'[r] = Presented(call'[r].method, http[r])
    BY <1>2, Forwarding DEF GTypeOK
  <2> QED
    BY <2>1, <2>2 DEF AskedRightly, Same, SameRequest
<1>3. CASE Work(r)
  <2>1. /\ UNCHANGED <<http, message>> /\ pc[r] # "idle" /\ SameRequest(r)
        /\ \A q \in Request : q # r => Same(q)
    BY <1>3, Working, HandlerFrame DEF IInv
  <2> QED
    BY <2>1 DEF AskedRightly, Same, SameRequest
<1> QED
  BY <1>1, <1>2, <1>3 DEF WebStep

LEMMA GrantedStep ==
  ASSUME IInv, GTypeOK, Stages, GrantedRightly, NEW r \in Request, WebStep(r)
  PROVE  GrantedRightly'
<1>1. CASE Outside(r)
  <2>1. UNCHANGED <<vars, granted>>
    BY <1>1, OutsideFrame
  <2> QED
    BY <2>1 DEF GrantedRightly, SignedUser, vars, request, client
<1>2. CASE Forward(r) \/ Work(r)
  <2>1. Handler(r) /\ now' = now /\ TypeOK
    BY <1>2, Forwarding, Working, HandlerMoves DEF IInv
  <2>2. \A q \in Request : q # r => Same(q) /\ granted'[q] = granted[q]
    BY <1>2, <2>1, HandlerFrame, WebFrame
  <2>3. tokens \subseteq tokens'
    BY <2>1, HandlerKeeps
  <2>4. pc[r] # "done"
    BY <2>1, HandlerMoves
  <2>5. granted'[r] # NoCredential => Work(r) /\ granted'[r] # granted[r]
    BY <1>2, <2>4 DEF GrantedRightly, Forward
  <2>6. ASSUME NEW q \in Request, q # r, granted'[q] # NoCredential
        PROVE  /\ code'[q] = "OK" /\ pc'[q] = "done" /\ call'[q].method \in SignInMethods
               /\ granted'[q] \in tokens' /\ granted'[q].type = "access"
               /\ granted'[q].user = SignedUser(q)'
               /\ granted'[q].exp <= now' + AccessTokenExpiry
    BY <2>1, <2>2, <2>3, <2>6 DEF GrantedRightly, SignedUser, Same, SameRequest
  <2> QED
    BY <2>5, <2>6, Granting DEF GrantedRightly
<1> QED
  BY <1>1, <1>2 DEF WebStep

LEMMA JarsStep ==
  ASSUME IInv, GTypeOK, Stages, GrantedRightly, JarsInOrder, NEW r \in Request, WebStep(r)
  PROVE  JarsInOrder'
<1>1. ASSUME NEW b \in Browser, jar'[b] = jar[b], setBy'[b] = setBy[b]
      PROVE  JarRight(b)'
  <2> DEFINE q == setBy[b]
  <2>1. JarRight(b) /\ q \in Request \cup {NoRequest}
    BY DEF JarsInOrder, GTypeOK
  <2>2. jar[b] # NoCookie => From(q, b, jar[b].token)'
    <3>1. jar[b] # NoCookie => From(q, b, jar[b].token)
      BY <2>1 DEF JarRight
    <3>2. From(q, b, jar[b].token) => /\ q \in Request /\ http'[q].by = b /\ at'[q] = "over"
                                     /\ granted'[q] = jar[b].token
      BY OverStays DEF From
    <3> QED
      BY <1>1, <3>1, <3>2 DEF From
  <2>3. q # NoRequest => at'[q] = "over" /\ granted'[q] = granted[q]
    BY <2>1, OverStays DEF JarRight
  <2> QED
    BY <1>1, <2>1, <2>2, <2>3 DEF JarRight, From
<1>2. CASE ~ Receive(r)
  <2>1. UNCHANGED <<jar, setBy>>
    BY <1>2 DEF WebStep, Outside, Browse, Preflight, Health, Logout, NotRouted,
                NotForwarded, AnswerHere, Forward, Work
  <2> QED
    BY <1>1, <2>1 DEF JarsInOrder
<1>3. CASE Receive(r)
  <2>. PICK b \in Browser : b = http[r].by
    BY <1>3 DEF Receive, Answered, Stages, HTTPType
  <2>1. at'[r] = "over" /\ UNCHANGED <<http, granted>>
    BY <1>3 DEF Receive, GTypeOK
  <2>2. \A c \in Browser : c # b => jar'[c] = jar[c] /\ setBy'[c] = setBy[c]
    BY <1>3 DEF Receive, GTypeOK
  <2>3. ~ SignsIn(r) \/ ~ SignsOut(r)
    BY DEF SignsIn, SignsOut, GrantedRightly, Stages
  <2>4. CASE SignsIn(r)
    <3>1. jar'[b] = [token |-> granted[r], until |-> now + CookieMaxAge] /\ setBy'[b] = r
      BY <1>3, <2>1, <2>3, <2>4 DEF Receive, GTypeOK
    <3>2. granted[r] \in Token /\ granted[r].exp <= now + AccessTokenExpiry
      BY <2>4 DEF SignsIn, GrantedRightly, IInv, TypeOK
    <3>3. /\ now \in Nat /\ granted[r].exp \in Nat /\ CookieMaxAge \in Nat
          /\ AccessTokenExpiry \in Nat /\ AccessTokenExpiry <= CookieMaxAge
      BY <3>2, GatewayAssumption, SessionsAssumption DEF Token, IInv, TypeOK
    <3>4. granted[r].exp <= now + CookieMaxAge /\ now + CookieMaxAge \in Nat
      BY <3>2, <3>3
    <3>5. jar'[b] # NoCookie
      <4>1. jar'[b] \in Cookie
        BY <3>1, <3>2, <3>4 DEF Cookie
      <4> QED
        BY <4>1, GatewayAssumption
    <3>6. JarRight(b)'
      BY <2>1, <3>1, <3>4, <3>5 DEF JarRight, From
    <3> QED
      BY <1>1, <2>2, <3>6 DEF JarsInOrder
  <2>5. CASE SignsOut(r)
    <3>1. ~ SignsIn(r)
      BY <2>3, <2>5
    <3>2. jar'[b] = NoCookie /\ setBy'[b] = r
      BY <1>3, <2>1, <2>5, <3>1 DEF Receive, GTypeOK
    <3>3. JarRight(b)'
      BY <2>1, <3>1, <3>2 DEF JarRight, SignsIn
    <3> QED
      BY <1>1, <2>2, <3>3 DEF JarsInOrder
  <2>6. CASE ~ SignsIn(r) /\ ~ SignsOut(r)
    <3>1. UNCHANGED <<jar, setBy>>
      BY <1>3, <2>6 DEF Receive
    <3> QED
      BY <1>1, <3>1 DEF JarsInOrder
  <2> QED
    BY <2>4, <2>5, <2>6
<1> QED
  BY <1>2, <1>3

\* The cookie of a request as it is sent.
LEMMA BrowseCookie ==
  ASSUME IInv, GTypeOK, JarsInOrder, NEW r \in Request, Browse(r)
  PROVE  CookieRight(r)'
<1>1. PICK b \in Browser :
        http'[r].by = b /\ http'[r].cookie = CookieOf(b) /\ jarOf'[r] = setBy[b]
  BY BrowseType
<1> DEFINE q == setBy[b]
<1>2. JarRight(b) /\ q \in Request \cup {NoRequest} /\ WebStep(r) /\ now' = now
  BY BrowseType DEF JarsInOrder, GTypeOK, WebStep, Outside, vars
<1>3. q # NoRequest => at[q] = "over" /\ at'[q] = "over" /\ granted'[q] = granted[q]
                       /\ http'[q] = http[q]
  BY <1>2, OverStays DEF JarRight
<1>4. CookieOf(b) # NoCredential => From(q, b, CookieOf(b))
  BY <1>2 DEF CookieOf, JarRight
<1>5. CookieOf(b) # NoCredential => /\ q \in Request /\ http'[q].by = b /\ at'[q] = "over"
                                   /\ granted'[q] = CookieOf(b)
  BY <1>2, <1>4, OverStays DEF From
<1>6. (q # NoRequest /\ granted[q] # NoCredential /\ CookieOf(b) = NoCredential)
        => granted[q].exp <= now
  <2> SUFFICES ASSUME q # NoRequest, granted[q] # NoCredential, CookieOf(b) = NoCredential
               PROVE  granted[q].exp <= now
    OBVIOUS
  <2>1. /\ jar[b] # NoCookie /\ granted[q] = jar[b].token
        /\ jar[b].token.exp <= jar[b].until
    BY <1>2 DEF JarRight, From
  <2>2. jar[b].token \in Token /\ jar[b].until \in Nat
    BY <2>1 DEF GTypeOK, Cookie
  <2>3. ~ (now < jar[b].until)
    BY <2>1, <2>2, SessionsAssumption DEF CookieOf
  <2>4. now \in Nat /\ jar[b].token.exp \in Nat
    BY <2>2 DEF Token, IInv, TypeOK
  <2> QED
    BY <2>1, <2>2, <2>3, <2>4
<1> QED
  BY <1>1, <1>2, <1>3, <1>5, <1>6 DEF CookieRight, From

LEMMA CookiesStep ==
  ASSUME IInv, GTypeOK, JarsInOrder, CookiesInOrder, NEW r \in Request, WebStep(r)
  PROVE  CookiesInOrder'
<1>1. ASSUME NEW p \in Request, at'[p] # "idle", ~ (Browse(r) /\ p = r)
      PROVE  at[p] # "idle" /\ http'[p] = http[p] /\ jarOf'[p] = jarOf[p]
  <2>1. CASE p # r
    BY <1>1, <2>1, WebFrame DEF WebStep, Outside
  <2>2. CASE p = r
    BY <1>1, <2>2 DEF WebStep, Outside, Receive, Answered, Preflight, Health, Logout,
       NotRouted, NotForwarded, AnswerHere, Forward, Work
  <2> QED
    BY <2>1, <2>2
<1>2. ASSUME NEW p \in Request, at'[p] # "idle", ~ (Browse(r) /\ p = r)
      PROVE  CookieRight(p)'
  <2> DEFINE q == jarOf[p]
  <2>1. /\ CookieRight(p) /\ http'[p] = http[p] /\ jarOf'[p] = q
        /\ q \in Request \cup {NoRequest} /\ now' = now
    BY <1>1, <1>2, NowGoesOn DEF CookiesInOrder, GTypeOK
  <2>2. q # NoRequest => at[q] = "over" /\ at'[q] = "over" /\ granted'[q] = granted[q]
                         /\ http'[q] = http[q]
    BY <2>1, OverStays DEF CookieRight
  <2>3. http[p].cookie # NoCredential =>
          /\ q \in Request /\ http'[q].by = http[p].by /\ at'[q] = "over"
          /\ granted'[q] = http[p].cookie
    BY <2>1, OverStays DEF CookieRight, From
  <2> QED
    BY <2>1, <2>2, <2>3 DEF CookieRight, From
<1> QED
  BY <1>2, BrowseCookie DEF CookiesInOrder

\* A call with a token is turned down by AuthenticateJWT only.
LEMMA TurnedDown ==
  ASSUME IInv, GTypeOK, Stages, NEW r \in Request, Work(r), code'[r] = "Unauthenticated",
         call[r].method \notin PublicMethods, cred[r] \in Token
  PROVE  ~ Valid(cred[r], "access")
<1>1. /\ TypeOK /\ Progress /\ Handler(r) /\ code[r] = "none" /\ pc[r] # "idle"
      /\ cred[r] \notin KeyId
  BY Working, SessionsAssumption DEF IInv
<1>2. ~ Send(r) /\ ~ LookupAPIKey(r) /\ ~ Touch(r)
  <2>1. ~ Send(r) /\ ~ LookupAPIKey(r)
    BY <1>1 DEF Send, LookupAPIKey
  <2>2. ~ Touch(r)
    BY <1>1 DEF Touch, Admit, Enter, Goto, Reply, TypeOK
  <2> QED
    BY <2>1, <2>2
<1>3. ~ Fails(r) /\ ~ Register(r) /\ ~ Login(r) /\ ~ Issue(r) /\ ~ RefreshToken(r)
  BY <1>1 DEF Fails, Register, Login, Issue, RefreshToken, Handles, Goto, Reply, TypeOK,
              Progress, PublicMethods
<1>4. ~ Profile(r) /\ ~ CreateUserApiKey(r) /\ ~ RevokeUserApiKey(r) /\ ~ Serve(r)
  BY <1>1 DEF Profile, CreateUserApiKey, RevokeUserApiKey, Serve, Goto, Reply, TypeOK
<1>5. AuthenticateJWT(r)
  BY <1>1, <1>2, <1>3, <1>4 DEF Handler
<1> QED
  BY <1>1, <1>5 DEF AuthenticateJWT, Admit, Enter, Goto, Reply, TypeOK

LEMMA TokensGoodStep ==
  ASSUME IInv, GTypeOK, Stages, TokensGood, NEW r \in Request, WebStep(r)
  PROVE  TokensGood'
<1>1. CASE Outside(r)
  <2>1. UNCHANGED vars
    BY <1>1, OutsideFrame
  <2> QED
    BY <2>1 DEF TokensGood, vars, request, client
<1>2. ASSUME Forward(r) \/ Work(r), NEW q \in Request, q # r
      PROVE  /\ cred'[q] \in Token => cred'[q] \in tokens'
             /\ ( /\ code'[q] = "Unauthenticated" /\ call'[q].method \notin PublicMethods
                  /\ cred'[q] \in Token /\ cred'[q].type = "access" )
                => cred'[q].exp <= now'
  <2>1. Handler(r)
    BY <1>2, Forwarding, Working
  <2>2. Same(q) /\ tokens \subseteq tokens' /\ now' = now
    BY <1>2, <2>1, HandlerFrame, HandlerKeeps, HandlerMoves DEF IInv
  <2> QED
    BY <2>2 DEF TokensGood, Same, SameRequest
<1>3. CASE Forward(r)
  <2>1. cred'[r] \in Token => cred'[r] \in tokens'
    BY <1>3, Forwarding
  <2>2. code'[r] # "Unauthenticated"
    <3>1. pc[r] = "idle" /\ TypeOK /\ code[r] = "none"
      BY <1>3, Forwarding DEF IInv, Progress
    <3> QED
      BY <1>3, <3>1 DEF Forward, Send, Enter, Goto, Reply, TypeOK
  <2> QED
    BY <1>2, <1>3, <2>1, <2>2 DEF TokensGood
<1>4. CASE Work(r)
  <2>1. SameRequest(r) /\ Handler(r) /\ now' = now /\ now \in Nat
    BY <1>4, Working, HandlerMoves DEF IInv, TypeOK
  <2>2. tokens \subseteq tokens'
    BY <2>1, HandlerKeeps DEF IInv
  <2>3. cred'[r] \in Token => cred'[r] \in tokens'
    BY <2>1, <2>2 DEF TokensGood, SameRequest
  <2>4. ( /\ code'[r] = "Unauthenticated" /\ call[r].method \notin PublicMethods
          /\ cred[r] \in Token /\ cred[r].type = "access" ) => cred[r].exp <= now
    <3> SUFFICES ASSUME code'[r] = "Unauthenticated", call[r].method \notin PublicMethods,
                        cred[r] \in Token, cred[r].type = "access"
                 PROVE  cred[r].exp <= now
      OBVIOUS
    <3>1. cred[r] \in tokens /\ ~ Valid(cred[r], "access")
      BY <1>4, TurnedDown DEF TokensGood
    <3> QED
      BY <2>1, <3>1 DEF Valid, Token
  <2> QED
    BY <1>2, <1>4, <2>1, <2>3, <2>4 DEF TokensGood, SameRequest
<1> QED
  BY <1>1, <1>3, <1>4 DEF WebStep

\* The clock goes on, an account disappears: later than any answer.
LEMMA LoggedOutStep ==
  ASSUME GTypeOK, Stages, LoggedOutRightly, NEW r \in Request, WebStep(r)
  PROVE  LoggedOutRightly'
<1> SUFFICES ASSUME NEW q \in Request, status'[q] = "LoggedOut"
             PROVE  at'[q] # "idle" /\ http'[q].ask.path = LogoutPath
  BY DEF LoggedOutRightly
<1>1. CASE q # r
  <2>1. at'[q] = at[q] /\ http'[q] = http[q] /\ status'[q] = status[q]
    BY <1>1, WebFrame DEF WebStep, Outside
  <2> QED
    BY <2>1 DEF LoggedOutRightly
<1>2. CASE q = r
  <2>1. CASE status[r] = "LoggedOut"
    <3>1. at[r] # "idle" /\ http[r].ask.path = LogoutPath
      BY <2>1 DEF LoggedOutRightly
    <3>2. http'[r] = http[r] /\ at'[r] # "idle"
      BY <3>1 DEF WebStep, Outside, Browse, Receive, Preflight, Health, Logout, NotRouted,
                  NotForwarded, AnswerHere, Forward, Work, GTypeOK
    <3> QED
      BY <1>2, <3>1, <3>2
  <2>2. CASE status[r] # "LoggedOut"
    <3>1. Logout(r)
      BY <1>2, <2>2 DEF WebStep, Outside, Browse, Receive, Preflight, Health, Logout,
                        NotRouted, NotForwarded, AnswerHere, Forward, Work, GTypeOK
    <3> QED
      BY <1>2, <3>1 DEF Logout, AnswerHere, GTypeOK
  <2> QED
    BY <2>1, <2>2
<1> QED
  BY <1>1, <1>2

LEMMA AroundStep ==
  ASSUME IInv, GIInv, Around
  PROVE  GIInv'
<1>1. /\ UNCHANGED <<client, request, pc, userID, code>> /\ UNCHANGED web
      /\ now \in Nat /\ now' \in Nat /\ now <= now'
  BY DEF Around, Tick, RemoveUser, IInv, TypeOK
<1>2. GTypeOK' /\ Stages' /\ AskedRightly'
  BY <1>1 DEF GIInv, GTypeOK, Stages, AskedRightly, web, request
<1>3. GrantedRightly'
  <2>1. ASSUME NEW q \in Request, granted[q] # NoCredential
        PROVE  granted[q].exp <= now' + AccessTokenExpiry
    <3>1. granted[q] \in Token /\ granted[q].exp <= now + AccessTokenExpiry
      BY <2>1 DEF GIInv, GTypeOK, GrantedRightly
    <3> QED
      BY <1>1, <3>1, SessionsAssumption DEF Token
  <2> QED
    BY <1>1, <2>1 DEF GIInv, GrantedRightly, SignedUser, web, request, client
<1>4. JarsInOrder'
  BY <1>1 DEF GIInv, JarsInOrder, JarRight, From, web
<1>5. CookiesInOrder'
  <2>1. ASSUME NEW q \in Request, granted[q] # NoCredential, granted[q].exp <= now
        PROVE  granted[q].exp <= now'
    <3>1. granted[q].exp \in Nat
      BY <2>1 DEF GIInv, GTypeOK, Token
    <3> QED
      BY <1>1, <2>1, <3>1
  <2>2. ASSUME NEW r \in Request, CookieRight(r)
        PROVE  CookieRight(r)'
    BY <1>1, <2>1, <2>2 DEF CookieRight, From, web, GIInv, GTypeOK
  <2> QED
    BY <1>1, <2>2 DEF GIInv, CookiesInOrder, web
<1>6. TokensGood'
  <2>1. ASSUME NEW r \in Request, cred[r] \in Token, cred[r].exp <= now
        PROVE  cred[r].exp <= now'
    BY <1>1, <2>1 DEF Token
  <2> QED
    BY <1>1, <2>1 DEF GIInv, TokensGood, request, client
<1>7. LoggedOutRightly'
  BY <1>1 DEF GIInv, LoggedOutRightly, web
<1> QED
  BY <1>2, <1>3, <1>4, <1>5, <1>6, <1>7 DEF GIInv

-----------------------------------------------------------------------------
(* The theorems *)

LEMMA GatewayInitInv == GInit => GIInv
<1> SUFFICES ASSUME GInit PROVE GIInv
  OBVIOUS
<1>1. GTypeOK
  BY GatewayAssumption DEF GInit, GTypeOK
<1>2. Stages /\ AskedRightly /\ GrantedRightly
  BY DEF GInit, Init, Stages, AskedRightly, GrantedRightly
<1>3. JarsInOrder /\ CookiesInOrder
  BY DEF GInit, JarsInOrder, JarRight, CookiesInOrder
<1>4. TokensGood
  BY SessionsAssumption DEF GInit, Init, TokensGood
<1>5. LoggedOutRightly
  BY DEF GInit, LoggedOutRightly
<1> QED
  BY <1>1, <1>2, <1>3, <1>4, <1>5 DEF GIInv

LEMMA GatewayNextInv == IInv /\ GIInv /\ [GNext]_gvars => GIInv'
<1> SUFFICES ASSUME IInv, GIInv, [GNext]_gvars PROVE GIInv'
  OBVIOUS
<1>1. ASSUME NEW r \in Request, WebStep(r) PROVE GIInv'
  <2> USE DEF GIInv
  <2>1. GTypeOK'
    <3>1. Receive(r) => http[r] \in HTTPType
      BY DEF Receive, Answered, Stages
    <3> QED
      BY <1>1, <3>1, BrowseType, ReceiveType, AnsweringType, ForwardType, WorkType
      DEF WebStep, Outside
  <2>2. Stages' /\ AskedRightly' /\ GrantedRightly'
    BY <1>1, StagesStep, AskedStep, GrantedStep
  <2>3. JarsInOrder' /\ CookiesInOrder' /\ TokensGood'
    BY <1>1, JarsStep, CookiesStep, TokensGoodStep
  <2>4. LoggedOutRightly'
    BY <1>1, LoggedOutStep
  <2> QED
    BY <2>1, <2>2, <2>3, <2>4
<1>2. CASE UNCHANGED gvars
  <2>1. UNCHANGED vars /\ UNCHANGED web
    BY <1>2 DEF gvars
  <2>2. GTypeOK' /\ Stages' /\ AskedRightly' /\ GrantedRightly'
    BY <2>1 DEF GIInv, GTypeOK, Stages, AskedRightly, GrantedRightly, SignedUser, vars, web,
                request, client
  <2>3. JarsInOrder' /\ CookiesInOrder' /\ TokensGood'
    BY <2>1 DEF GIInv, JarsInOrder, JarRight, CookiesInOrder, CookieRight, From, TokensGood,
                vars, web, request, client
  <2>4. LoggedOutRightly'
    BY <2>1 DEF GIInv, LoggedOutRightly, web
  <2> QED
    BY <2>2, <2>3, <2>4 DEF GIInv
<1> QED
  BY <1>1, <1>2, AroundStep DEF GNext, WebStep, Outside

\* The inductive invariant holds in every reachable state.
THEOREM GatewayInductive == GSpec => []GIInv
BY GatewayInitInv, GatewayNextInv, SessionsInvariant, PTL DEF GSpec

\* A request acts for its header, or for the sign-in its browser had last
\* (main.go:137-177, 192-208).
THEOREM ActsForItsOwnSession == GSpec => []ActsForItsSession
<1>1. ASSUME IInv, GIInv PROVE ActsForItsSession
  <2> SUFFICES ASSUME NEW r \in Request, Served(r)
               PROVE  \/ http[r].given # NoCredential /\ cred[r] = http[r].given
                      \/ LET q == jarOf[r] IN
                         /\ http[r].given = NoCredential
                         /\ q # NoRequest
                         /\ http[q].by = http[r].by
                         /\ call[q].method \in SignInMethods /\ code[q] = "OK"
                         /\ userID[r] = SignedUser(q)
    BY DEF ActsForItsSession
  <2>1. pc[r] # "idle" /\ at[r] # "idle" /\ call[r].method \notin PublicMethods
    <3>1. pc[r] = "done"
      BY <1>1 DEF Served, IInv, Progress
    <3> QED
      BY <1>1, <3>1 DEF Served, GIInv, Stages
  <2>2. cred[r] = Authorization(http[r])
    BY <1>1, <2>1 DEF GIInv, AskedRightly, Presented, PublicMethods
  <2>3. CASE http[r].given # NoCredential
    BY <2>2, <2>3 DEF Authorization
  <2>4. CASE http[r].given = NoCredential
    <3>1. cred[r] = http[r].cookie /\ http[r].cookie \in Token \cup {NoCredential}
      BY <1>1, <2>1, <2>2, <2>4 DEF Authorization, GIInv, Stages, HTTPType
    <3>2. HeldToken(r) \/ FoundKey(r)
      BY <1>1 DEF Served, IInv, AdmittedRightly, Admitted
    <3>3. HeldToken(r) /\ http[r].cookie # NoCredential
      BY <1>1, <3>1, <3>2, SessionsAssumption DEF HeldToken, FoundKey, IInv, TypeOK
    <3>4. From(jarOf[r], http[r].by, http[r].cookie)
      BY <1>1, <2>1, <3>3 DEF GIInv, CookiesInOrder, CookieRight
    <3>5. jarOf[r] \in Request /\ granted[jarOf[r]] = cred[r] /\ cred[r] # NoCredential
      BY <3>1, <3>3, <3>4 DEF From
    <3>6. /\ code[jarOf[r]] = "OK" /\ call[jarOf[r]].method \in SignInMethods
          /\ cred[r].user = SignedUser(jarOf[r])
      BY <1>1, <3>5 DEF GIInv, GrantedRightly
    <3> QED
      BY <2>4, <3>3, <3>4, <3>5, <3>6, GatewayAssumption DEF HeldToken, From
  <2> QED
    BY <2>3, <2>4
<1> QED
  BY <1>1, SessionsInvariant, GatewayInductive, PTL

\* No browser loses its session before its token ends (main.go:171, jwt.go:33).
THEOREM StaysSignedIn == GSpec => []SignedInStaysIn
<1>1. ASSUME IInv, GIInv PROVE SignedInStaysIn
  <2> SUFFICES ASSUME NEW r \in Request, code[r] = "Unauthenticated",
                      call[r].method \notin PublicMethods, http[r].given = NoCredential,
                      jarOf[r] # NoRequest, granted[jarOf[r]] # NoCredential
               PROVE  granted[jarOf[r]].exp <= now
    BY DEF SignedInStaysIn
  <2>1. pc[r] # "idle" /\ at[r] # "idle"
    <3>1. pc[r] = "done"
      BY <1>1 DEF IInv, Progress
    <3> QED
      BY <1>1, <3>1 DEF GIInv, Stages
  <2>2. cred[r] = http[r].cookie /\ http[r].cookie \in Token \cup {NoCredential}
    BY <1>1, <2>1 DEF GIInv, AskedRightly, Presented, PublicMethods, Authorization, Stages,
                      HTTPType
  <2>3. CookieRight(r)
    BY <1>1, <2>1 DEF GIInv, CookiesInOrder
  <2>4. CASE http[r].cookie = NoCredential
    BY <2>3, <2>4 DEF CookieRight
  <2>5. CASE http[r].cookie # NoCredential
    <3>1. granted[jarOf[r]] = cred[r] /\ jarOf[r] \in Request
      BY <2>2, <2>3, <2>5 DEF CookieRight, From
    <3>2. cred[r].type = "access" /\ cred[r] \in Token
      BY <1>1, <2>2, <2>5, <3>1 DEF GIInv, GrantedRightly
    <3> QED
      BY <1>1, <3>1, <3>2 DEF GIInv, TokensGood
  <2> QED
    BY <2>4, <2>5
<1> QED
  BY <1>1, SessionsInvariant, GatewayInductive, PTL

\* A call is about what its URL names (api/gen/buildapi/v1/*.pb.gw.go).
THEOREM ActsOnTheURL == GSpec => []ActsOnWhatTheURLNames
<1>1. ASSUME GIInv PROVE ActsOnWhatTheURLNames
  <2> SUFFICES ASSUME NEW r \in Request, pc[r] # "idle",
                      NEW i \in 1 .. Len(http[r].ask.path), NEW f \in PathField,
                      Names(http[r].ask.path, i, f)
               PROVE  message[r][f] = http[r].ask.path[i]
    BY DEF ActsOnWhatTheURLNames
  <2>1. http[r].ask \in HTTPCall[r]
    BY <1>1 DEF GIInv, GTypeOK, Stages
  <2>2. PICK m \in Route[http[r].ask] :
          message[r] = Filled(m, http[r].ask.path, http[r].ask.fields)
    BY <1>1 DEF GIInv, AskedRightly
  <2> QED
    BY <2>1, <2>2, RouteOf, FilledFromPath
<1> QED
  BY <1>1, GatewayInductive, PTL

\* The methods behind GET.
Reading == {"GetMe", "ListUserApiKeys", "ListBuilders", "GetBuilder", "HealthCheck",
            "ListOrganizations", "GetOrganization", "ListOrganizationMembers",
            "ListTemplates", "GetTemplate"}

LEMMA ReadByGet ==
  ASSUME NEW m \in Method, Verb(m) = "GET"
  PROVE  m \in Reading
<1>1. CASE m \in AuthService
  <2>1. AuthHandlers[m] = "GET"
    BY <1>1, Entries DEF Verb
  <2> QED
    BY <1>1, <2>1 DEF AuthHandlers, Reading
<1>2. CASE m \in BuildAPI
  <2>1. BuildHandlers[m] = "GET"
    BY <1>2, Entries DEF Verb
  <2> QED
    BY <1>2, <2>1 DEF BuildHandlers, BuildAPI, Reading
<1>3. CASE m \in OrganizationService
  <2>1. OrgHandlers[m] = "GET"
    BY <1>3, Entries DEF Verb
  <2> QED
    BY <1>3, <2>1 DEF OrgHandlers, OrganizationService, Reading
<1>4. CASE m \in TemplateService
  <2>1. TemplateHandlers[m] = "GET"
    BY <1>4, Entries DEF Verb
  <2> QED
    BY <1>4, <2>1 DEF TemplateHandlers, TemplateService, Reading
<1> QED
  BY <1>1, <1>2, <1>3, <1>4 DEF Method

LEMMA ReadingScopes ==
  ASSUME NEW m \in Reading, m \in ScopedMethods
  PROVE  MethodRequiredScope[m] \in {"organizations:read", "builders:read", "templates:read"}
BY DEF Reading, ScopedMethods, MethodRequiredScope

LEMMA ReadingKeeps ==
  ASSUME IInv, NEW r \in Request, Handler(r), call[r].method \in Reading, pc[r] # "idle"
  PROVE  UNCHANGED <<users, keys, tokens, secrets>>
<1>1. /\ call[r].method \notin {"Register", "Login", "RefreshToken", "CreateUserApiKey",
                                "RevokeUserApiKey"}
      /\ ~ Send(r)
  BY DEF Reading, Send
<1>2. ~ Issue(r)
  BY <1>1 DEF Issue, IInv, Progress
<1>3. ~ Register(r) /\ ~ Login(r) /\ ~ RefreshToken(r) /\ ~ CreateUserApiKey(r)
      /\ ~ RevokeUserApiKey(r)
  BY <1>1 DEF Register, Login, RefreshToken, CreateUserApiKey, RevokeUserApiKey, Handles
<1>4. \/ AuthenticateJWT(r) \/ LookupAPIKey(r) \/ Touch(r) \/ Fails(r) \/ Profile(r)
      \/ Serve(r)
  BY <1>1, <1>2, <1>3 DEF Handler
<1> QED
  BY <1>4 DEF AuthenticateJWT, LookupAPIKey, Touch, Fails, Profile, Serve, tables, client

\* The answer to a GET sets no cookie, and deletes one only on the path of the logout.
LEMMA CookiesOfGets ==
  ASSUME GIInv, NEW r \in Request, Receive(r), http[r].ask.verb = "GET", jar' # jar
  PROVE  http[r].ask.path = LogoutPath
<1>1. CASE SignsIn(r)
  <2>1. call[r].method \in SignInMethods /\ pc[r] = "done" /\ at[r] # "idle"
    BY <1>1 DEF SignsIn, GIInv, GrantedRightly, Receive, Answered
  <2>2. http[r].ask \in HTTPCall[r]
    BY <2>1 DEF GIInv, Stages
  <2>3. PICK m \in Route[http[r].ask] : call[r] = Asked(m, http[r].ask)
    BY <2>1 DEF GIInv, AskedRightly
  <2>4. call[r].method \in Reading
    BY <2>2, <2>3, RouteOf, ReadByGet
  <2> QED
    BY <2>1, <2>4 DEF SignInMethods, Reading
<1>2. CASE SignsOut(r)
  BY <1>2 DEF SignsOut, GIInv, LoggedOutRightly
<1> QED
  BY <1>1, <1>2 DEF Receive

\* What a GET changes, for all routes: nothing in the tables but a key's last use, and the
\* cookie only if it is of the logout (api/gen/buildapi/v1/*.pb.gw.go, main.go:103, 137-177).
THEOREM GetsDoOnlyRead == GSpec => GetsOnlyRead
<1> DEFINE Reads(r) ==
             /\ UNCHANGED <<users, keys, tokens, secrets>>
             /\ call[r].method \in ScopedMethods =>
                  MethodRequiredScope[call[r].method] \in
                    {"organizations:read", "builders:read", "templates:read"}
           A ==
             \A r \in Request : http[r] # NoHTTP /\ http[r].ask.verb = "GET" =>
               /\ (pc[r] \in Step /\ pc'[r] # pc[r]) => Reads(r)
               /\ (at'[r] # at[r] /\ jar' # jar) => http[r].ask.path = LogoutPath
<1>1. IInv /\ GIInv /\ [GNext]_gvars => [A]_gvars
  <2> SUFFICES ASSUME IInv, GIInv, GNext, NEW r \in Request, http[r].ask.verb = "GET"
               PROVE  /\ (pc[r] \in Step /\ pc'[r] # pc[r]) => Reads(r)
                      /\ (at'[r] # at[r] /\ jar' # jar) => http[r].ask.path = LogoutPath
    OBVIOUS
  <2>1. ASSUME pc[r] \in Step, pc'[r] # pc[r]
        PROVE  Reads(r)
    <3>1. PICK q \in Request : WebStep(q)
      BY <2>1 DEF GNext, WebStep, Outside, Around, Tick, RemoveUser
    <3>2. Handler(q)
      BY <2>1, <3>1, OutsideFrame, Forwarding, Working DEF WebStep, vars, GIInv
    <3>3. q = r
      BY <2>1, <3>2, HandlerFrame DEF Same, IInv
    <3>4. pc[r] # "idle" /\ http[r].ask \in HTTPCall[r]
      BY <2>1 DEF Step, GIInv, Stages
    <3>5. PICK m \in Route[http[r].ask] : call[r] = Asked(m, http[r].ask)
      BY <3>4 DEF GIInv, AskedRightly
    <3>6. call[r].method \in Reading
      BY <3>4, <3>5, RouteOf, ReadByGet
    <3> QED
      BY <3>2, <3>3, <3>4, <3>6, ReadingKeeps, ReadingScopes
  <2>2. ASSUME at'[r] # at[r], jar' # jar
        PROVE  http[r].ask.path = LogoutPath
    <3>1. PICK q \in Request : WebStep(q)
      BY <2>2 DEF GNext, WebStep, Outside, Around, web
    <3>2. Receive(q)
      BY <2>2, <3>1 DEF WebStep, Outside, Browse, Preflight, Health, Logout, NotRouted,
                        NotForwarded, AnswerHere, Forward, Work
    <3>3. q = r
      BY <2>2, <3>2, WebFrame DEF GIInv
    <3> QED
      BY <2>2, <3>2, <3>3, CookiesOfGets
  <2> QED
    BY <2>1, <2>2
<1> QED
  BY <1>1, SessionsInvariant, GatewayInductive, PTL DEF GSpec, GetsOnlyRead

\* Behind the gateway, credentials promise what they promise over gRPC: whatever a
\* client asks for over HTTP, it acts as if let in by a recent password or a live
\* key, which end when they should (cmd/server/main.go:81-107, middleware.go:65-99).
THEOREM GatewayKeepsCredentials ==
  GSpec => /\ KeepsCredentials
           /\ OthersKeysStay
           /\ [](KeysEnd /\ KeysAreConfined /\ SessionsEnd /\ AccountsDistinct)
BY GatewayKeepsSessions, SessionsKeepCredentials, OthersKeysDoStay, KeysDoEnd,
   KeysStayConfined, SessionsDoEnd, AccountsAreDistinct, PTL
=============================================================================
