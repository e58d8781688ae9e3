---------------------------- MODULE CustomResources ----------------------------
(***************************************************************************)
(* The builders and templates of one organization: the handlers of         *)
(* internal/server/handlers.go and internal/templates/service.go.  Each    *)
(* checks that its caller is a member and then goes to the Kubernetes API  *)
(* server, once to read and delete, once to create, twice (Get, then       *)
(* Update or Patch) to change.                                             *)
(*                                                                         *)
(* Between any two steps of a handler the other handlers, the operator     *)
(* that reconciles the resources and people with kubectl write the same    *)
(* objects.  What the API server does about that is decided by what a      *)
(* handler sends: Update carries the resourceVersion that Get returned and *)
(* is refused when it is no longer the current one, the merge patch of     *)
(* WakeBuilder carries nothing but the annotation it changes.              *)
(*                                                                         *)
(* The namespace exists throughout: its life is the subject of module      *)
(* Organizations.                                                          *)
(***************************************************************************)
EXTENDS CRSpecs

CONSTANTS
  Request,     \* requests that reach a handler
  Call,        \* what requests may ask for, a subset of CallType
  User,
  Anonymous,   \* UserIDFromContext is ""
  Name,        \* names of custom resources
  ManualSpec,  \* specs people write to a custom resource with kubectl
  NoObject,    \* the answer NotFound
  MaxRevision, \* bound on what the operator and people write
  MaxTime      \* bound on the clock

Op == {"list", "get", "create", "update", "delete", "wake"}

CallType == [op : Op, kind : Kind, user : User \cup {Anonymous},
             namespace : {"this", ""}, name : Name \cup {""},
             spec : ApiSpec \cup {Nil}]

Key == [kind : Kind, name : Name]

Object == [uid : Nat, resourceVersion : Nat, spec : CRSpec, lastUsed : Nat]

\* What callers have a say in: its spec and its time of last use.
Shown == [spec : CRSpec, lastUsed : Nat]

ASSUME CustomResourcesAssumption ==
  /\ Call \subseteq CallType
  /\ \A c \in Call : c.op = "wake" => c.kind = "builder"
  /\ \A c \in Call : c.spec # Nil => c.spec.kind = c.kind
  /\ Anonymous \notin User
  /\ "" \notin Name
  /\ Nil \notin ApiSpec
  /\ ManualSpec \subseteq CRSpec
  /\ NoObject \notin Object /\ NoObject \notin Shown
  /\ MaxRevision \in Nat
  /\ MaxTime \in Nat

VARIABLES
  members,  \* users with a row in organization_members for the organization
  objects,  \* the custom resources, NoObject where there is none; lastUsed is
            \* the annotation last-used, 0 if absent
  revision, \* the last resourceVersion given out
  now,      \* seconds, the resolution of time.RFC3339
  call,     \* what each request asks for, fixed when it is sent
  pc,       \* the next step of its handler
  copy,     \* the object Get returned to it
  stamp,    \* the time a WakeBuilder has put in its copy
  target,   \* uid of the object its write reached, 0 if none
  code,     \* the status code answered
  contested \* wakes during which another wake of the same builder ran

vars == <<members, objects, revision, now, call, pc, copy, stamp, target, code,
          contested>>

Step == {"checkMember", "ensureNs", "look", "read", "stamp",
         "create", "update", "patch", "delete"}

\* Steps at which a call that changes an object is on its way.
Writing == {"create", "update", "patch", "delete"}

Code == {"none", "OK", "Unauthenticated", "InvalidArgument", "NotFound",
         "PermissionDenied", "Internal"}

KeyOf(r) == [kind |-> call[r].kind, name |-> call[r].name]

Exists(key) == objects[key] # NoObject

Init ==
  /\ members \in SUBSET User
  /\ objects = [key \in Key |-> NoObject]
  /\ revision = 0
  /\ now = 1
  /\ call \in [Request -> Call]
  /\ pc = [r \in Request |-> "idle"]
  /\ copy = [r \in Request |-> NoObject]
  /\ stamp = [r \in Request |-> 0]
  /\ target = [r \in Request |-> 0]
  /\ code = [r \in Request |-> "none"]
  /\ contested = {}

-----------------------------------------------------------------------------
(* The API server *)

\* A write that changes nothing is accepted and gives no new resourceVersion.
Store(key, obj) ==
  IF Exists(key) /\ [obj EXCEPT !.resourceVersion = objects[key].resourceVersion]
                      = objects[key]
  THEN UNCHANGED <<objects, revision>>
  ELSE /\ revision' = revision + 1
       /\ objects' =
            [objects EXCEPT ![key] = [obj EXCEPT !.resourceVersion = revision + 1]]

NewObject(spec) ==
  [uid |-> revision + 1, resourceVersion |-> revision + 1, spec |-> spec,
   lastUsed |-> 0]

-----------------------------------------------------------------------------
(* How a handler goes on *)

Goto(r, step) ==
  /\ pc' = [pc EXCEPT ![r] = step]
  /\ UNCHANGED code

\* Nobody reads the answer of a handler that was given up.
Reply(r, c) ==
  /\ pc' = [pc EXCEPT ![r] = "done"]
  /\ code' = [code EXCEPT ![r] = IF @ = "none" THEN c ELSE @]

NoWrite == UNCHANGED <<objects, revision, target>>
Elsewhere == UNCHANGED <<members, now, call, contested>>

Wakes(key) ==
  {r \in Request : call[r].op = "wake" /\ KeyOf(r) = key /\ pc[r] \in Step}

\* What is looked at before the request goes to the API server.
Valid(c) ==
  /\ c.op # "list" => c.name # ""
  /\ c.op \in {"create", "update"} => c.spec # Nil
  /\ (c.op = "create" /\ c.kind = "builder") => c.spec.ref # ""

FirstStep == [list |-> "look", get |-> "look", create |-> "create",
              update |-> "read", delete |-> "delete", wake |-> "read"]

GoOn(r) == IF Valid(call[r]) THEN Goto(r, FirstStep[call[r].op])
                             ELSE Reply(r, "InvalidArgument")

Begin(r) ==
  /\ pc[r] = "idle"
  /\ IF call[r].user = Anonymous THEN Reply(r, "Unauthenticated")
     ELSE IF call[r].namespace = "" THEN Reply(r, "InvalidArgument")
     ELSE Goto(r, "checkMember")
  /\ contested' =
       IF call[r].op = "wake" /\ pc'[r] \in Step /\ Wakes(KeyOf(r)) # {}
       THEN contested \cup {r} \cup Wakes(KeyOf(r)) ELSE contested
  /\ NoWrite
  /\ UNCHANGED <<members, now, call, copy, stamp>>

\* ensureOrgMember, and the checks of the request that follow it.
CheckMember(r) ==
  /\ pc[r] = "checkMember"
  /\ IF call[r].user \notin members THEN Reply(r, "PermissionDenied")
     ELSE IF call[r].op = "create" /\ call[r].kind = "builder"
     THEN Goto(r, "ensureNs")
     ELSE GoOn(r)
  /\ NoWrite /\ Elsewhere
  /\ UNCHANGED <<copy, stamp>>

\* EnsureOrgNamespace finds the namespace; CreateBuilder looks at its request
\* after that.
EnsureNs(r) ==
  /\ pc[r] = "ensureNs"
  /\ GoOn(r)
  /\ NoWrite /\ Elsewhere
  /\ UNCHANGED <<copy, stamp>>

\* GetBuilder, GetTemplate, ListBuilders, ListTemplates.
Look(r) ==
  /\ pc[r] = "look"
  /\ Reply(r, IF call[r].op = "list" \/ Exists(KeyOf(r)) THEN "OK" ELSE "NotFound")
  /\ NoWrite /\ Elsewhere
  /\ UNCHANGED <<copy, stamp>>

\* Get, from UpdateBuilder, UpdateTemplate and WakeBuilder.
Read(r) ==
  /\ pc[r] = "read"
  /\ IF Exists(KeyOf(r))
     THEN /\ copy' = [copy EXCEPT ![r] = objects[KeyOf(r)]]
          /\ Goto(r, IF call[r].op = "wake" THEN "stamp" ELSE "update")
     ELSE Reply(r, "NotFound") /\ UNCHANGED copy
  /\ NoWrite /\ Elsewhere
  /\ UNCHANGED stamp

\* time.Now() in WakeBuilder.
Stamp(r) ==
  /\ pc[r] = "stamp"
  /\ stamp' = [stamp EXCEPT ![r] = now]
  /\ Goto(r, "patch")
  /\ NoWrite /\ Elsewhere
  /\ UNCHANGED copy

-----------------------------------------------------------------------------
(* The writes.  Every refusal but NotFound of a Delete is Internal. *)

\* The object of key is now obj, by the doing of r.
Write(r, key, obj) ==
  /\ Store(key, obj)
  /\ target' = [target EXCEPT ![r] = obj.uid]
  /\ Reply(r, "OK")

Refused(r) == NoWrite /\ Reply(r, "Internal")

CreateCR(r) ==
  /\ pc[r] = "create"
  /\ IF Exists(KeyOf(r)) THEN Refused(r)
     ELSE Write(r, KeyOf(r), NewObject(ToCR(call[r].spec)))
  /\ Elsewhere
  /\ UNCHANGED <<copy, stamp>>

\* With a bug: the object is sent without the resourceVersion.
UpdateCR_Unconditional(r) ==
  /\ pc[r] = "update"
  /\ IF Exists(KeyOf(r))
     THEN Write(r, KeyOf(r), [copy[r] EXCEPT !.spec = ToCR(call[r].spec)])
     ELSE Refused(r)
  /\ Elsewhere
  /\ UNCHANGED <<copy, stamp>>

\* Update of the copy with another spec, on condition that the copy is current.
UpdateCR(r) ==
  /\ pc[r] = "update"
  /\ IF /\ Exists(KeyOf(r))
        /\ objects[KeyOf(r)].resourceVersion = copy[r].resourceVersion
     THEN Write(r, KeyOf(r), [copy[r] EXCEPT !.spec = ToCR(call[r].spec)])
     ELSE Refused(r)
  /\ Elsewhere
  /\ UNCHANGED <<copy, stamp>>

\* With a bug: a builder that was woken once is not stamped again.
PatchCR_Once(r) ==
  /\ pc[r] = "patch"
  /\ IF Exists(KeyOf(r))
     THEN Write(r, KeyOf(r),
            [objects[KeyOf(r)] EXCEPT !.lastUsed = IF @ = 0 THEN stamp[r] ELSE @])
     ELSE Refused(r)
  /\ Elsewhere
  /\ UNCHANGED <<copy, stamp>>

\* The merge patch from the copy to the stamped copy, applied to whatever is
\* stored under the name by now; empty if the copy bore the same second.
PatchCR(r) ==
  /\ pc[r] = "patch"
  /\ IF Exists(KeyOf(r))
     THEN Write(r, KeyOf(r),
            [objects[KeyOf(r)] EXCEPT
               !.lastUsed = IF copy[r].lastUsed = stamp[r] THEN @ ELSE stamp[r]])
     ELSE Refused(r)
  /\ Elsewhere
  /\ UNCHANGED <<copy, stamp>>

DeleteCR(r) ==
  /\ pc[r] = "delete"
  /\ objects' = [objects EXCEPT ![KeyOf(r)] = NoObject]
  /\ target' = [target EXCEPT ![r] = IF Exists(KeyOf(r))
                                     THEN objects[KeyOf(r)].uid ELSE 0]
  /\ Reply(r, "OK")
  /\ Elsewhere
  /\ UNCHANGED <<revision, copy, stamp>>

-----------------------------------------------------------------------------
(* What goes wrong, and what others do *)

\* A call fails without effect, or its effect never comes.
CallFails(r) ==
  /\ pc[r] \in Step \ {"stamp"}
  /\ Reply(r, "Internal")
  /\ NoWrite /\ Elsewhere
  /\ UNCHANGED <<copy, stamp>>

\* The client goes away, the deadline passes or the connection breaks while a
\* write is on its way: the handler reports an error, the write may yet come.
GiveUp(r) ==
  /\ pc[r] \in Writing /\ code[r] = "none"
  /\ code' = [code EXCEPT ![r] = "Internal"]
  /\ NoWrite /\ Elsewhere
  /\ UNCHANGED <<pc, copy, stamp>>

Idle == UNCHANGED <<call, pc, copy, stamp, target, code, contested>>

MembersChange == /\ members' \in SUBSET User
                 /\ Idle
                 /\ UNCHANGED <<objects, revision, now>>

Tick == /\ now < MaxTime
        /\ now' = now + 1
        /\ Idle
        /\ UNCHANGED <<members, objects, revision>>

\* The operator of the custom resources reports the status of one.
OperatorReports(key) ==
  /\ Exists(key)
  /\ revision < MaxRevision
  /\ revision' = revision + 1
  /\ objects' = [objects EXCEPT ![key].resourceVersion = revision + 1]
  /\ Idle
  /\ UNCHANGED <<members, now>>

\* People edit the spec of a custom resource with kubectl.
PeopleEdit(key) ==
  /\ Exists(key)
  /\ revision < MaxRevision
  /\ \E spec \in ManualSpec : /\ spec.kind = key.kind
                              /\ Store(key, [objects[key] EXCEPT !.spec = spec])
  /\ Idle
  /\ UNCHANGED <<members, now>>

Handler(r) ==
  \/ Begin(r) \/ CheckMember(r) \/ EnsureNs(r) \/ Look(r) \/ Read(r) \/ Stamp(r)
  \/ CreateCR(r) \/ UpdateCR(r) \/ PatchCR(r) \/ DeleteCR(r)
  \/ CallFails(r) \/ GiveUp(r)

Next ==
  \/ \E r \in Request : Handler(r)
  \/ \E key \in Key : OperatorReports(key) \/ PeopleEdit(key)
  \/ MembersChange
  \/ Tick

Spec == Init /\ [][Next]_vars
=============================================================================
