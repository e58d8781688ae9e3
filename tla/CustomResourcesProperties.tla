---------------------- MODULE CustomResourcesProperties ----------------------
(***************************************************************************)
(* What must hold of builders and templates in every interleaving of the   *)
(* handlers of module CustomResources with one another, with the operator  *)
(* and with kubectl.                                                       *)
(***************************************************************************)
EXTENDS CustomResources

TypeOK ==
  /\ members \subseteq User
  /\ objects \in [Key -> Object \cup {NoObject}]
  /\ revision \in Nat
  /\ now \in Nat \ {0}
  /\ call \in [Request -> Call]
  /\ pc \in [Request -> Step \cup {"idle", "done"}]
  /\ copy \in [Request -> Object \cup {NoObject}]
  /\ stamp \in [Request -> Nat]
  /\ target \in [Request -> Nat]
  /\ code \in [Request -> Code]
  /\ contested \subseteq Request

\* The update r reaches its object in this step.
Lands(r) == pc[r] = "update" /\ objects' # objects /\ pc'[r] = "done"

\* UpdateBuilder and UpdateTemplate replace the very object they read: no status,
\* wake, edit, deletion or other update that came after their Get is undone by
\* the whole object they send back, not even when the write arrives after the
\* handler gave it up (handlers.go:147-155, templates/service.go:114-124).
NoLostUpdate ==
  [][\A r \in Request : Lands(r) => objects[KeyOf(r)] = copy[r]]_vars

\* A wake that was answered OK and had no rival counts: the builder bears its
\* time or a later one for as long as it exists, whatever updates run at the
\* same time - unless it replaced the one the handler had read, when the patch
\* may have been empty (handlers.go:192-206).
WakeSticks ==
  \A r \in Request \ contested :
    LET builder == objects[KeyOf(r)] IN
    ( /\ call[r].op = "wake" /\ code[r] = "OK"
      /\ builder # NoObject /\ builder.uid = target[r] /\ copy[r].uid = target[r] )
    => builder.lastUsed >= stamp[r]

\* What the operator makes of a spec: a builder without a number of replicas has one, one
\* without an idle timeout sleeps after 300 seconds.
Meaning(s) ==
  IF s.kind = "builder"
  THEN <<s.ref, IF s.replicas = Nil THEN 1 ELSE s.replicas,
         IF s.idle = Nil THEN 300 ELSE s.idle, s.rest>>
  ELSE <<IF s.limit = Nil THEN Nil ELSE Canonical[s.limit], s.rest, s.extra>>

\* A number that is there, and is not positive.
ZeroOrLess(n) == n # Nil /\ n <= 0

\* What people with kubectl can write and an update cannot: no replicas, no idle timeout,
\* fields the API does not have.
Unsayable(s) ==
  IF s.kind = "builder" THEN ZeroOrLess(s.replicas) \/ ZeroOrLess(s.idle)
  ELSE s.extra # Nil

\* A client that gets a builder or a template and sends back what it was shown changes
\* nothing the operator acts on, whoever wrote the custom resource and whatever fields they
\* left out or wrote in another way - unless they wrote what an update cannot say
\* (handlers.go:219-270, templates/service.go:196-304).  A builder with an idle timeout of 0
\* gets one of 300 seconds by that, as ManagedFieldsKept says of a template's fields.
SentBackIsTheSame ==
  \A key \in Key :
    LET spec == objects[key].spec IN
    (Exists(key) /\ ~ Unsayable(spec)) => Meaning(ToCR(ToProto(spec))) = Meaning(spec)

\* What callers have a say in of a custom resource.
EntryOf(key) ==
  IF Exists(key)
  THEN [spec |-> objects[key].spec, lastUsed |-> objects[key].lastUsed]
  ELSE NoObject

Catalog == INSTANCE ResourceCatalog WITH
  catalog <- [key \in Key |-> EntryOf(key)],
  clock   <- now,
  Nothing <- NoObject

\* The handlers, which get and then write, keep the promises of ResourceCatalog,
\* in which every call is one step: an update never takes back a wake, nor a
\* wake an update.
KeepsCatalog == Catalog!CatalogSpec

-----------------------------------------------------------------------------
(* What the documentation says and the code does not keep *)

\* "Some advanced scheduling fields (tolerations, affinity, nodeSelector,
\* buildkitdToml) can still be managed directly on the CR" (templates.proto:102):
\* UpdateTemplate leaves the fields it does not have as they are.
ManagedFieldsKept ==
  [][\A r \in Request : \A key \in Key :
       (Lands(r) /\ key = KeyOf(r) /\ key.kind = "template") =>
         objects'[key].spec.extra = objects[key].spec.extra]_vars
=============================================================================
