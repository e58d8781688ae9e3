-------------------------------- MODULE CRSpecs --------------------------------
(***************************************************************************)
(* The specs of builders and templates, as the API takes them and as the   *)
(* custom resources keep them, and the conversions between the two         *)
(* (protoSpecToCR, crToProto, protoSpecToTemplateSpec,                     *)
(* templateSpecToProto).  The fields that are copied as they are stand     *)
(* together as "rest", those the API does not have as "extra".             *)
(***************************************************************************)
EXTENDS Integers

CONSTANTS
  Ref,      \* names of templates
  Rest,     \* values of the fields that are copied
  Replicas, \* numbers of replicas a request may ask for
  IdleTimeout, \* seconds until a builder sleeps that a request may ask for
  Quantity, \* resource quantities a request may ask for
  Parsable, \* those resource.ParseQuantity accepts
  Canonical, \* what String of a parsed quantity is: 1Gi for 1024Mi
  Extra,    \* values of the fields the API does not have: tolerations,
            \* affinity, nodeSelector, buildkitdToml, the secretRef of a cache
  Nil

ASSUME CRSpecsAssumption ==
  /\ "" \notin Ref
  /\ Replicas \subseteq Int /\ 1 \in Replicas
  /\ IdleTimeout \subseteq Int /\ 300 \in IdleTimeout
  /\ Parsable \subseteq Quantity
  /\ Canonical \in [Parsable -> Parsable]
  /\ \A q \in Parsable : Canonical[Canonical[q]] = Canonical[q]
  /\ Nil \notin Ref /\ Nil \notin Replicas /\ Nil \notin IdleTimeout
  /\ Nil \notin Quantity /\ Nil \notin Extra

Kind == {"builder", "template"}

\* BuilderSpec and BuilderTemplateSpec of the API.  A quantity is Nil when the
\* resource is not mentioned.
ApiSpec == [kind : {"builder"}, ref : Ref \cup {""}, replicas : Replicas, idle : IdleTimeout,
            rest : Rest]
             \cup [kind : {"template"}, limit : Quantity \cup {Nil}, rest : Rest]

\* The spec of the custom resource.  The API server, too, refuses quantities that
\* cannot be parsed.
CRSpec == [kind : {"builder"}, ref : Ref \cup {Nil}, replicas : Replicas \cup {Nil},
           idle : IdleTimeout \cup {Nil}, rest : Rest]
            \cup [kind : {"template"}, limit : Parsable \cup {Nil}, rest : Rest,
                  extra : Extra \cup {Nil}]

\* With a bug: a reference to "" instead of none.
ProtoSpecToCR_NoNil(s) ==
  [kind |-> "builder", ref |-> s.ref, replicas |-> s.replicas, idle |-> s.idle,
   rest |-> s.rest]

\* Zero values become absent fields, which the operator gives its defaults.
ProtoSpecToCR(s) ==
  [kind     |-> "builder",
   ref      |-> IF s.ref = "" THEN Nil ELSE s.ref,
   replicas |-> IF s.replicas > 0 THEN s.replicas ELSE Nil,
   idle     |-> IF s.idle > 0 THEN s.idle ELSE Nil,
   rest     |-> s.rest]

\* A quantity that cannot be parsed is dropped; what the API does not have is
\* empty.
ProtoSpecToTemplateSpec(s) ==
  [kind  |-> "template",
   limit |-> IF s.limit \in Parsable THEN Canonical[s.limit] ELSE Nil,
   rest  |-> s.rest,
   extra |-> Nil]

ToCR(s) == IF s.kind = "builder" THEN ProtoSpecToCR(s) ELSE ProtoSpecToTemplateSpec(s)

\* With a bug: a builder is shown without its template.
CRToProto_NoRef(s) ==
  [kind     |-> "builder",
   ref      |-> "",
   replicas |-> IF s.replicas = Nil THEN 1 ELSE s.replicas,
   idle     |-> IF s.idle = Nil THEN 300 ELSE s.idle,
   rest     |-> s.rest]

\* What is absent is shown as the default of the operator.
CRToProto(s) ==
  [kind     |-> "builder",
   ref      |-> IF s.ref = Nil THEN "" ELSE s.ref,
   replicas |-> IF s.replicas = Nil THEN 1 ELSE s.replicas,
   idle     |-> IF s.idle = Nil THEN 300 ELSE s.idle,
   rest     |-> s.rest]

TemplateSpecToProto(s) ==
  [kind  |-> "template",
   limit |-> IF s.limit = Nil THEN Nil ELSE Canonical[s.limit],
   rest  |-> s.rest]

ToProto(s) == IF s.kind = "builder" THEN CRToProto(s) ELSE TemplateSpecToProto(s)
=============================================================================
