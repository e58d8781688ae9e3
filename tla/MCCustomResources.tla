---------------------------- MODULE MCCustomResources ----------------------------
(***************************************************************************)
(* Instances of CustomResources for TLC: one member, one builder and one   *)
(* template.                                                               *)
(***************************************************************************)
EXTENDS CustomResourcesInvariants, TLC

MCRef      == {"t"}
MCReplicas == {0, 1, 2}
MCIdle     == {0, 60, 300}
MCQuantity == {"1Gi", "1024Mi", "lots"}
MCParsable == {"1Gi", "1024Mi"}
MCCanonical == [q \in MCParsable |-> "1Gi"]
MCExtra    == {"tolerations"}
MCRest     == {"x", "y"}
MCUser     == {"alice"}

Asks(op, kind, specs) ==
  [op : {op}, kind : {kind}, user : MCUser, namespace : {"this"}, name : {"n"},
   spec : specs]

Builder(ref, replicas, idle, rest) ==
  [kind |-> "builder", ref |-> ref, replicas |-> replicas, idle |-> idle, rest |-> rest]
Template(limit, rest) == [kind |-> "template", limit |-> limit, rest |-> rest]

\* The life of one builder.
BuilderCalls ==
  Asks("create", "builder", {Builder("t", 0, 0, "x")})
  \cup Asks("update", "builder", {Builder("", 2, 60, "y")})
  \cup Asks("delete", "builder", {Nil})
  \cup Asks("wake", "builder", {Nil})

\* One template, which people edit too.
TemplateCalls ==
  Asks("create", "template", {Template("1Gi", "x")})
  \cup Asks("update", "template", {Template("lots", "y")})

\* Requests that only look, and some that are turned down.
OtherCalls ==
  Asks("get", "template", {Nil}) \cup Asks("list", "builder", {Nil})
  \cup Asks("create", "builder", {Builder("", 0, 0, "x")})
  \cup [op : {"delete"}, kind : {"builder"}, user : {Anonymous}, namespace : {"this"},
        name : {"n"}, spec : {Nil}]
  \cup [op : {"delete"}, kind : {"builder"}, user : MCUser, namespace : {""},
        name : {"n"}, spec : {Nil}]

AllCalls == BuilderCalls \cup TemplateCalls \cup OtherCalls

\* A behaviour is about the builder, or about the template and the other requests.
InScene ==
  \/ \A r \in Request : call[r] \in BuilderCalls
  \/ \A r \in Request : call[r] \in TemplateCalls \cup OtherCalls

TemplateEdits ==
  {[kind |-> "template", limit |-> "1024Mi", rest |-> "x", extra |-> "tolerations"]}

\* A builder scaled to 0, one without a number of replicas, and a template.
Edits ==
  TemplateEdits
  \cup {Builder("t", 0, 60, "x"), Builder("t", Nil, 60, "x")}

Symmetry == Permutations(Request)
=============================================================================
