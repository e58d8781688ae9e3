------------------------ MODULE CustomResourcesProofs ------------------------
(***************************************************************************)
(* The properties of module CustomResourcesProperties, proved for any      *)
(* number of requests, users and custom resources.                         *)
(***************************************************************************)
EXTENDS CustomResourcesInvariants, TLAPS

-----------------------------------------------------------------------------
(* Operators *)

LEMMA ToCRType ==
  ASSUME NEW s \in ApiSpec
  PROVE  ToCR(s) \in CRSpec /\ ToCR(s).kind = s.kind
<1>1. CASE s \in [kind : {"builder"}, ref : Ref \cup {""}, replicas : Replicas,
                  idle : IdleTimeout, rest : Rest]
  BY <1>1 DEF ToCR, ProtoSpecToCR, CRSpec
<1>2. CASE s \in [kind : {"template"}, limit : Quantity \cup {Nil}, rest : Rest]
  BY <1>2, CRSpecsAssumption DEF ToCR, ProtoSpecToTemplateSpec, CRSpec
<1> QED
  BY <1>1, <1>2 DEF ApiSpec

\* The fields of a request.
LEMMA CallFields ==
  ASSUME call \in [Request -> Call], NEW r \in Request
  PROVE  /\ call[r].op \in Op
         /\ call[r].kind \in Kind
         /\ call[r].op = "wake" => call[r].kind = "builder"
         /\ call[r].spec \in ApiSpec \cup {Nil}
<1>1. call[r] \in Call
  OBVIOUS
<1>2. call[r] \in CallType /\ (call[r].op = "wake" => call[r].kind = "builder")
  BY <1>1, CustomResourcesAssumption
<1> QED
  BY <1>2 DEF CallType

LEMMA NewObjectType ==
  ASSUME revision \in Nat, NEW spec \in CRSpec
  PROVE  NewObject(spec) \in Object
BY DEF NewObject, Object

\* What a write to one key leaves behind.
LEMMA StoreEffect ==
  ASSUME objects \in [Key -> Object \cup {NoObject}], revision \in Nat,
         NEW key \in Key, NEW obj \in Object, Store(key, obj)
  PROVE  /\ objects' \in [Key -> Object \cup {NoObject}]
         /\ \A other \in Key : other # key => objects'[other] = objects[other]
         /\ \/ /\ objects' = objects /\ revision' = revision
               /\ Exists(key)
               /\ obj.uid = objects[key].uid /\ obj.spec = objects[key].spec
               /\ obj.lastUsed = objects[key].lastUsed
            \/ /\ revision' = revision + 1
               /\ objects'[key] # NoObject
               /\ objects'[key].uid = obj.uid
               /\ objects'[key].resourceVersion = revision + 1
               /\ objects'[key].spec = obj.spec
               /\ objects'[key].lastUsed = obj.lastUsed
<1> DEFINE new == [obj EXCEPT !.resourceVersion = revision + 1]
<1>1. /\ new \in Object
      /\ new.uid = obj.uid /\ new.resourceVersion = revision + 1
      /\ new.spec = obj.spec /\ new.lastUsed = obj.lastUsed
  BY DEF Object
<1>2. CASE UNCHANGED <<objects, revision>>
  <2>1. /\ Exists(key)
        /\ [obj EXCEPT !.resourceVersion = objects[key].resourceVersion]
             = objects[key]
    BY <1>2 DEF Store
  <2> QED
    BY <1>2, <2>1 DEF Object
<1>3. CASE revision' = revision + 1 /\ objects' = [objects EXCEPT ![key] = new]
  BY <1>1, <1>3, CustomResourcesAssumption
<1> QED
  BY <1>2, <1>3 DEF Store

-----------------------------------------------------------------------------
(* Type correctness and control *)

LEMMA KeyType ==
  ASSUME call \in [Request -> Call], NEW r \in Request, call[r].name # ""
  PROVE  KeyOf(r) \in Key
<1>1. call[r] \in CallType
  BY CustomResourcesAssumption
<1> QED
  BY <1>1 DEF CallType, KeyOf, Key

\* What a handler sends to the API server is an object.
LEMMA SentType ==
  ASSUME TypeOK, ControlInv, NEW r \in Request
  PROVE  /\ pc[r] \in {"read", "stamp"} \cup Writing => KeyOf(r) \in Key
         /\ pc[r] \in {"create", "update"} =>
              ToCR(call[r].spec) \in CRSpec
         /\ pc[r] = "create" => NewObject(ToCR(call[r].spec)) \in Object
         /\ pc[r] = "update" =>
              /\ copy[r] \in Object
              /\ [copy[r] EXCEPT !.spec = ToCR(call[r].spec)] \in Object
         /\ pc[r] = "patch" /\ Exists(KeyOf(r)) =>
              \A t \in Nat : [objects[KeyOf(r)] EXCEPT !.lastUsed = t] \in Object
<1>1. pc[r] \in {"read", "stamp"} \cup Writing => KeyOf(r) \in Key
  BY KeyType DEF TypeOK, ControlInv, Controlled
<1>2. pc[r] \in {"create", "update"} => ToCR(call[r].spec) \in CRSpec
  BY ToCRType, CallFields DEF TypeOK, ControlInv, Controlled
<1>3. pc[r] = "create" => NewObject(ToCR(call[r].spec)) \in Object
  BY <1>2, NewObjectType DEF TypeOK
<1>4. pc[r] = "update" =>
        /\ copy[r] \in Object
        /\ [copy[r] EXCEPT !.spec = ToCR(call[r].spec)] \in Object
  <2> SUFFICES ASSUME pc[r] = "update"
               PROVE  /\ copy[r] \in Object
                      /\ [copy[r] EXCEPT !.spec = ToCR(call[r].spec)] \in Object
    OBVIOUS
  <2>1. copy[r] \in Object
    BY DEF TypeOK, ControlInv, Controlled
  <2> QED
    BY <1>2, <2>1 DEF Object
<1>5. pc[r] = "patch" /\ Exists(KeyOf(r)) =>
        \A t \in Nat : [objects[KeyOf(r)] EXCEPT !.lastUsed = t] \in Object
  <2> SUFFICES ASSUME pc[r] = "patch", Exists(KeyOf(r)), NEW t \in Nat
               PROVE  [objects[KeyOf(r)] EXCEPT !.lastUsed = t] \in Object
    OBVIOUS
  <2>1. objects[KeyOf(r)] \in Object
    BY <1>1 DEF TypeOK, Exists, Writing
  <2> QED
    BY <2>1 DEF Object
<1> QED
  BY <1>1, <1>2, <1>3, <1>4, <1>5

\* The object a write of r leaves under its key.
Sent(r) ==
  CASE pc[r] = "create" -> NewObject(ToCR(call[r].spec))
    [] pc[r] = "update" -> [copy[r] EXCEPT !.spec = ToCR(call[r].spec)]
    [] pc[r] = "patch"  ->
         [objects[KeyOf(r)] EXCEPT
            !.lastUsed = IF copy[r].lastUsed = stamp[r] THEN @ ELSE stamp[r]]

Accepted(r) ==
  \/ pc[r] = "create" /\ ~ Exists(KeyOf(r))
  \/ /\ pc[r] = "update" /\ Exists(KeyOf(r))
     /\ objects[KeyOf(r)].resourceVersion = copy[r].resourceVersion
  \/ pc[r] = "patch" /\ Exists(KeyOf(r))

\* How a handler's step treats the objects.
Effect(r) ==
  \/ NoWrite
  \/ Accepted(r) /\ Write(r, KeyOf(r), Sent(r))
  \/ DeleteCR(r)

\* How a handler's step treats the handler.
Progress(r) ==
  \/ /\ pc[r] = "idle"
     /\ copy' = copy /\ stamp' = stamp
     /\ Goto(r, "checkMember") \/ \E c \in Code \ {"none", "OK"} : Reply(r, c)
     /\ contested' = contested \/ contested' = contested \cup {r} \cup Wakes(KeyOf(r))
  \/ /\ pc[r] \in Step
     /\ contested' = contested
     /\ \/ /\ \E s \in StepsOf[call[r].op] : Goto(r, s)
           /\ \/ copy' = copy /\ stamp' = stamp
              \/ /\ pc[r] = "read" /\ stamp' = stamp /\ Exists(KeyOf(r))
                 /\ copy' = [copy EXCEPT ![r] = objects[KeyOf(r)]]
              \/ /\ pc[r] = "stamp" /\ copy' = copy
                 /\ stamp' = [stamp EXCEPT ![r] = now]
        \/ copy' = copy /\ stamp' = stamp /\ \E c \in Code : Reply(r, c)
        \/ GiveUp(r)

LEMMA HandlerEffect ==
  ASSUME TypeOK, ControlInv, NEW r \in Request, Handler(r)
  PROVE  /\ Effect(r)
         /\ UNCHANGED <<members, now, call>>
         /\ ~ NoWrite => pc[r] \in Writing /\ pc'[r] = "done"
<1> USE DEF Effect, Elsewhere
<1>1. CASE Begin(r) \/ CheckMember(r) \/ EnsureNs(r) \/ Look(r) \/ Read(r) \/ Stamp(r)
  BY <1>1 DEF Begin, CheckMember, EnsureNs, Look, Read, Stamp
<1>2. CASE CallFails(r) \/ GiveUp(r)
  BY <1>2 DEF CallFails, GiveUp
<1>3. CASE CreateCR(r)
  BY <1>3 DEF CreateCR, Accepted, Sent, Refused, Write, Reply, TypeOK, Writing
<1>4. CASE UpdateCR(r)
  BY <1>4 DEF UpdateCR, Accepted, Sent, Refused, Write, Reply, TypeOK, Writing
<1>5. CASE PatchCR(r)
  BY <1>5 DEF PatchCR, Accepted, Sent, Refused, Write, Reply, TypeOK, Writing
<1>6. CASE DeleteCR(r)
  BY <1>6 DEF DeleteCR, Reply, TypeOK, Writing
<1> QED
  BY <1>1, <1>2, <1>3, <1>4, <1>5, <1>6 DEF Handler

LEMMA GoOnProgress ==
  ASSUME TypeOK, NEW r \in Request, GoOn(r), pc[r] \in Step
  PROVE  \/ \E s \in StepsOf[call[r].op] : Goto(r, s)
         \/ Reply(r, "InvalidArgument")
<1>1. call[r].op \in Op
  BY CallFields DEF TypeOK
<1> QED
  BY <1>1 DEF GoOn, FirstStep, StepsOf, Op

LEMMA HandlerProgress ==
  ASSUME TypeOK, ControlInv, NEW r \in Request, Handler(r)
  PROVE  Progress(r)
<1>op. call[r].op \in Op /\ (pc[r] \in Step => pc[r] \in StepsOf[call[r].op])
  BY CallFields DEF TypeOK, ControlInv, Controlled
<1>1. CASE Begin(r)
  BY <1>1 DEF Begin, Progress, Code
<1>2. CASE CheckMember(r)
  <2>1. CASE call[r].op = "create" /\ Goto(r, "ensureNs")
    BY <1>2, <2>1 DEF CheckMember, Elsewhere, Progress, StepsOf, Step
  <2>2. CASE GoOn(r)
    BY <1>2, <2>2, GoOnProgress DEF CheckMember, Elsewhere, Progress, Step, Code
  <2>3. CASE Reply(r, "PermissionDenied")
    BY <1>2, <2>3 DEF CheckMember, Elsewhere, Progress, Step, Code
  <2> QED
    BY <1>2, <2>1, <2>2, <2>3 DEF CheckMember
<1>3. CASE EnsureNs(r)
  BY <1>3, GoOnProgress DEF EnsureNs, Elsewhere, Progress, Step, Code
<1>4. CASE Look(r)
  BY <1>4 DEF Look, Elsewhere, Progress, Step, Code
<1>5. CASE Read(r)
  BY <1>5, <1>op DEF Read, Elsewhere, Progress, Step, Code, StepsOf, Op
<1>6. CASE Stamp(r)
  BY <1>6, <1>op DEF Stamp, Elsewhere, Progress, Step, StepsOf, Op
<1>7. CASE CreateCR(r)
  BY <1>7 DEF CreateCR, Write, Refused, Elsewhere, Progress, Step, Code
<1>8. CASE UpdateCR(r)
  BY <1>8 DEF UpdateCR, Write, Refused, Elsewhere, Progress, Step, Code
<1>9. CASE PatchCR(r)
  BY <1>9 DEF PatchCR, Write, Refused, Elsewhere, Progress, Step, Code
<1>10. CASE DeleteCR(r)
  BY <1>10 DEF DeleteCR, Elsewhere, Progress, Step, Code
<1>11. CASE CallFails(r)
  BY <1>11 DEF CallFails, Elsewhere, Progress, Step, Code
<1>12. CASE GiveUp(r)
  BY <1>12 DEF GiveUp, Elsewhere, Progress, Step, Writing
<1> QED
  BY <1>1, <1>2, <1>3, <1>4, <1>5, <1>6, <1>7, <1>8, <1>9, <1>10, <1>11, <1>12
     DEF Handler

\* What Write leaves behind, for an object of the right type.
LEMMA WriteType ==
  ASSUME TypeOK, ControlInv, NEW r \in Request, Accepted(r)
  PROVE  KeyOf(r) \in Key /\ Sent(r) \in Object
<1>1. KeyOf(r) \in Key
  BY SentType DEF Accepted, Writing
<1>2. CASE pc[r] = "create"
  BY <1>1, <1>2, SentType DEF Sent
<1>3. CASE pc[r] = "update"
  BY <1>1, <1>3, SentType DEF Sent
<1>4. CASE pc[r] = "patch" /\ Exists(KeyOf(r))
  <2> DEFINE t == IF copy[r].lastUsed = stamp[r] THEN objects[KeyOf(r)].lastUsed
                                                 ELSE stamp[r]
  <2>1. objects[KeyOf(r)] \in Object
    BY <1>1, <1>4 DEF TypeOK, Exists
  <2>2. t \in Nat
    BY <2>1 DEF TypeOK, Object
  <2>3. Sent(r) = [objects[KeyOf(r)] EXCEPT !.lastUsed = t]
    BY <1>4, <2>1 DEF Sent, Object
  <2>4. [objects[KeyOf(r)] EXCEPT !.lastUsed = t] \in Object
    BY <2>1, <2>2 DEF Object
  <2> QED
    BY <1>1, <2>3, <2>4
<1> QED
  BY <1>1, <1>2, <1>3, <1>4 DEF Accepted

\* An edit of the spec sends an object too.
LEMMA EditType ==
  ASSUME TypeOK, NEW key \in Key, Exists(key), NEW spec \in ManualSpec
  PROVE  [objects[key] EXCEPT !.spec = spec] \in Object
<1>1. objects[key] \in Object /\ spec \in CRSpec
  BY CustomResourcesAssumption DEF TypeOK, Exists
<1> QED
  BY <1>1 DEF Object

LEMMA ObjectsType ==
  ASSUME TypeOK, ControlInv, [Next]_vars
  PROVE  objects' \in [Key -> Object \cup {NoObject}] /\ revision' \in Nat
<1> USE DEF TypeOK
<1>1. ASSUME NEW r \in Request, Handler(r)
      PROVE  objects' \in [Key -> Object \cup {NoObject}] /\ revision' \in Nat
  <2>1. Effect(r)
    BY <1>1, HandlerEffect
  <2>2. CASE NoWrite
    BY <2>2 DEF NoWrite
  <2>3. CASE Accepted(r) /\ Write(r, KeyOf(r), Sent(r))
    BY <2>3, WriteType, StoreEffect DEF Write
  <2>4. CASE DeleteCR(r)
    BY <2>4 DEF DeleteCR
  <2> QED
    BY <2>1, <2>2, <2>3, <2>4 DEF Effect
<1>2. ASSUME NEW key \in Key, OperatorReports(key)
      PROVE  objects' \in [Key -> Object \cup {NoObject}] /\ revision' \in Nat
  <2>1. objects[key] \in Object
    BY <1>2 DEF OperatorReports, Exists
  <2>2. [objects[key] EXCEPT !.resourceVersion = revision + 1] \in Object
    BY <2>1 DEF Object
  <2> QED
    BY <1>2, <2>2 DEF OperatorReports
<1>3. ASSUME NEW key \in Key, PeopleEdit(key)
      PROVE  objects' \in [Key -> Object \cup {NoObject}] /\ revision' \in Nat
  BY <1>3, EditType, StoreEffect DEF PeopleEdit
<1>4. CASE MembersChange \/ Tick \/ UNCHANGED vars
  BY <1>4 DEF MembersChange, Tick, vars
<1> QED
  BY <1>1, <1>2, <1>3, <1>4 DEF Next

LEMMA TypeStep ==
  ASSUME TypeOK, ControlInv, [Next]_vars
  PROVE  TypeOK'
<1>1. (objects \in [Key -> Object \cup {NoObject}])' /\ (revision \in Nat)'
  BY ObjectsType
<1>2. ASSUME NEW r \in Request, Handler(r)
      PROVE  TypeOK'
  <2>1. /\ (members \subseteq User)' /\ (now \in Nat \ {0})'
        /\ (call \in [Request -> Call])'
    BY <1>2, HandlerEffect DEF TypeOK
  <2>2. (target \in [Request -> Nat])'
    <3>1. CASE NoWrite
      BY <3>1 DEF NoWrite, TypeOK
    <3>2. CASE Accepted(r) /\ Write(r, KeyOf(r), Sent(r))
      BY <3>2, WriteType DEF Write, TypeOK, Object
    <3>3. CASE DeleteCR(r)
      <4>1. Exists(KeyOf(r)) => objects[KeyOf(r)].uid \in Nat
        BY <3>3, SentType DEF DeleteCR, Writing, TypeOK, Exists, Object
      <4> QED
        BY <3>3, <4>1 DEF DeleteCR, TypeOK
    <3> QED
      BY <1>2, <3>1, <3>2, <3>3, HandlerEffect DEF Effect
  <2>3. Progress(r)
    BY <1>2, HandlerProgress
  <2>4. (pc \in [Request -> Step \cup {"idle", "done"}])'
    BY <2>3, CallFields
       DEF Progress, Goto, Reply, GiveUp, TypeOK, Step, StepsOf, Op
  <2>5. (code \in [Request -> Code])'
    BY <2>3 DEF Progress, Goto, Reply, GiveUp, TypeOK, Code
  <2>6. (copy \in [Request -> Object \cup {NoObject}])'
    <3>1. pc[r] = "read" => KeyOf(r) \in Key
      BY SentType
    <3> QED
      BY <2>3, <3>1 DEF Progress, GiveUp, TypeOK
  <2>7. (stamp \in [Request -> Nat])'
    BY <2>3 DEF Progress, GiveUp, TypeOK
  <2>8. (contested \subseteq Request)'
    BY <2>3 DEF Progress, GiveUp, Elsewhere, Wakes, TypeOK
  <2> QED
    BY <1>1, <2>1, <2>2, <2>4, <2>5, <2>6, <2>7, <2>8 DEF TypeOK
<1>3. CASE (\E key \in Key : OperatorReports(key) \/ PeopleEdit(key))
             \/ MembersChange \/ Tick \/ UNCHANGED vars
  BY <1>1, <1>3
     DEF OperatorReports, PeopleEdit, MembersChange, Tick, Idle, vars, TypeOK
<1> QED
  BY <1>2, <1>3 DEF Next

\* The handlers that do not take the step stay as they are.
OthersStay(r) ==
  \A s \in Request \ {r} :
    /\ pc'[s] = pc[s] /\ copy'[s] = copy[s] /\ stamp'[s] = stamp[s]
    /\ target'[s] = target[s] /\ code'[s] = code[s]

LEMMA HandlerOthersStay ==
  ASSUME TypeOK, ControlInv, NEW r \in Request, Handler(r)
  PROVE  OthersStay(r)
<1>1. \A s \in Request \ {r} : target'[s] = target[s]
  BY HandlerEffect DEF Effect, NoWrite, Write, DeleteCR, TypeOK
<1>2. \A s \in Request \ {r} :
        pc'[s] = pc[s] /\ copy'[s] = copy[s] /\ stamp'[s] = stamp[s] /\ code'[s] = code[s]
  BY HandlerProgress DEF Progress, Goto, Reply, GiveUp, TypeOK
<1> QED
  BY <1>1, <1>2 DEF OthersStay

\* Only handlers move handlers.
LEMMA OtherStep ==
  ASSUME [Next]_vars, ~ \E r \in Request : Handler(r)
  PROVE  /\ UNCHANGED <<call, pc, copy, stamp, target, code, contested>>
         /\ now' = now \/ (Tick /\ UNCHANGED <<objects, revision>>)
BY DEF Next, OperatorReports, PeopleEdit, MembersChange, Tick, Idle, vars

LEMMA CallStays ==
  ASSUME TypeOK, ControlInv, [Next]_vars
  PROVE  /\ call' = call
         /\ \A r \in Request : KeyOf(r)' = KeyOf(r) /\ IsWake(r)' = IsWake(r)
<1>1. call' = call
  BY HandlerEffect, OtherStep
<1> QED
  BY <1>1 DEF KeyOf, IsWake

LEMMA ReplyControl ==
  ASSUME TypeOK, ControlInv, call' = call, NEW r \in Request, UNCHANGED copy,
         NEW c \in Code, Reply(r, c),
         (c = "OK" /\ call[r].op = "wake") => copy[r] # NoObject
  PROVE  Controlled(r)'
<1>1. /\ pc'[r] = "done" /\ copy'[r] = copy[r] /\ call'[r] = call[r]
      /\ code'[r] = c \/ code'[r] = code[r]
  BY DEF Reply, TypeOK
<1> QED
  BY <1>1 DEF ControlInv, Controlled, Step, Writing

LEMMA GotoControl ==
  ASSUME TypeOK, ControlInv, call' = call, NEW r \in Request, pc[r] # "done",
         NEW step \in StepsOf[call[r].op], Goto(r, step),
         step \in Writing \cup {"read", "stamp"} => call[r].name # "",
         (step \in {"create", "update"} \/ (step = "read" /\ call[r].op = "update"))
           => call[r].spec # Nil,
         step \in {"update", "stamp", "patch"} => copy'[r] # NoObject,
         copy'[r] = copy[r] \/ call[r].name # ""
  PROVE  Controlled(r)'
<1>1. pc'[r] = step /\ code'[r] = code[r] /\ call'[r] = call[r]
  BY DEF Goto, TypeOK
<1>2. code'[r] # "OK"
  BY <1>1 DEF ControlInv, Controlled
<1> QED
  BY <1>1, <1>2 DEF ControlInv, Controlled

LEMMA GoOnControl ==
  ASSUME TypeOK, ControlInv, call' = call, NEW r \in Request, UNCHANGED copy,
         pc[r] \in {"checkMember", "ensureNs"}, GoOn(r)
  PROVE  Controlled(r)'
<1>op. call[r].op \in Op
  BY CallFields DEF TypeOK
<1>1. CASE Reply(r, "InvalidArgument")
  BY <1>1, ReplyControl DEF Code
<1>2. CASE Valid(call[r]) /\ Goto(r, FirstStep[call[r].op])
  <2> DEFINE step == FirstStep[call[r].op]
  <2>1. /\ step \in StepsOf[call[r].op]
        /\ step \notin {"update", "stamp", "patch"}
        /\ step \in Writing \cup {"read", "stamp"} => call[r].op # "list"
        /\ step = "create" => call[r].op = "create"
    BY <1>op DEF FirstStep, StepsOf, Op, Writing
  <2> QED
    BY <1>2, <2>1, GotoControl DEF Valid
<1> QED
  BY <1>1, <1>2 DEF GoOn

LEMMA ControlHandler ==
  ASSUME TypeOK, ControlInv, NEW r \in Request, Handler(r)
  PROVE  Controlled(r)'
<1>call. call' = call
  BY HandlerEffect
<1>op. /\ call[r].op \in Op /\ Controlled(r)
       /\ "checkMember" \in StepsOf[call[r].op]
       /\ pc[r] \in Step => pc[r] \in StepsOf[call[r].op]
  <2>1. call[r].op \in Op /\ Controlled(r)
    BY CallFields DEF TypeOK, ControlInv
  <2>2. "checkMember" \in StepsOf[call[r].op]
    BY <2>1 DEF StepsOf, Op
  <2> QED
    BY <2>1, <2>2 DEF Controlled
<1>1. CASE Begin(r)
  <2>1. CASE Goto(r, "checkMember")
    BY <1>1, <1>call, <1>op, <2>1, GotoControl DEF Begin, Writing
  <2>2. CASE \E c \in Code \ {"OK"} : Reply(r, c)
    BY <1>1, <1>call, <2>2, ReplyControl DEF Begin
  <2> QED
    BY <1>1, <2>1, <2>2 DEF Begin, Code
<1>2. CASE CheckMember(r)
  <2>1. CASE GoOn(r)
    BY <1>2, <1>call, <2>1, GoOnControl DEF CheckMember
  <2>2. CASE Reply(r, "PermissionDenied")
    BY <1>2, <1>call, <2>2, ReplyControl DEF CheckMember, Code
  <2>3. CASE call[r].op = "create" /\ Goto(r, "ensureNs")
    <3>1. "ensureNs" \in StepsOf[call[r].op]
      BY <2>3 DEF StepsOf
    <3> QED
      BY <1>2, <1>call, <2>3, <3>1, GotoControl DEF CheckMember, Writing
  <2> QED
    BY <1>2, <2>1, <2>2, <2>3 DEF CheckMember
<1>3. CASE EnsureNs(r)
  BY <1>3, <1>call, GoOnControl DEF EnsureNs
<1>4. CASE Look(r)
  <2>1. call[r].op # "wake"
    BY <1>4, <1>op DEF Look, StepsOf, Op, Step
  <2> QED
    BY <1>4, <1>call, <2>1, ReplyControl DEF Look, Code
<1>5. CASE Read(r)
  <2> DEFINE step == IF call[r].op = "wake" THEN "stamp" ELSE "update"
  <2>1. CASE Exists(KeyOf(r)) /\ Goto(r, step)
    <3>1. /\ step \in StepsOf[call[r].op]
          /\ step = "update" => call[r].op = "update"
      BY <1>5, <1>op DEF Read, StepsOf, Op, Step
    <3>2. copy'[r] = objects[KeyOf(r)] /\ copy'[r] # NoObject
      BY <1>5, <2>1 DEF Read, Exists, TypeOK
    <3>3. call[r].name # "" /\ (step = "update" => call[r].spec # Nil)
      BY <1>5, <1>op, <3>1 DEF Read, Controlled
    <3> QED
      BY <1>5, <1>call, <2>1, <3>1, <3>2, <3>3, GotoControl DEF Read
  <2>2. CASE ~ Exists(KeyOf(r))
    BY <1>5, <1>call, <2>2, ReplyControl DEF Read, Code
  <2> QED
    BY <1>5, <2>1, <2>2 DEF Read
<1>6. CASE Stamp(r)
  <2>1. "patch" \in StepsOf[call[r].op]
    BY <1>6, <1>op DEF Stamp, StepsOf, Op, Step
  <2>2. copy'[r] = copy[r] /\ copy[r] # NoObject /\ call[r].name # ""
    BY <1>6, <1>op DEF Stamp, Controlled
  <2> QED
    BY <1>6, <1>call, <2>1, <2>2, GotoControl DEF Stamp
<1>7. CASE CreateCR(r) \/ UpdateCR(r) \/ PatchCR(r) \/ DeleteCR(r)
  <2>1. UNCHANGED copy /\ \E c \in Code : Reply(r, c)
    BY <1>7 DEF CreateCR, UpdateCR, PatchCR, DeleteCR, Refused, Write, Code
  <2>2. pc[r] \in StepsOf[call[r].op] /\ pc[r] \in Writing
    BY <1>op, <1>7 DEF CreateCR, UpdateCR, PatchCR, DeleteCR, Step, Writing
  <2>3. call[r].op = "wake" => pc[r] = "patch"
    BY <2>2 DEF StepsOf, Writing
  <2>4. call[r].op = "wake" => copy[r] # NoObject
    BY <1>op, <2>3 DEF Controlled
  <2> QED
    BY <1>call, <2>1, <2>4, ReplyControl
<1>8. CASE CallFails(r)
  BY <1>8, <1>call, ReplyControl DEF CallFails, Code
<1>9. CASE GiveUp(r)
  BY <1>9, <1>call, <1>op DEF GiveUp, Controlled, TypeOK
<1> QED
  BY <1>1, <1>2, <1>3, <1>4, <1>5, <1>6, <1>7, <1>8, <1>9 DEF Handler

LEMMA ControlStep ==
  ASSUME TypeOK, ControlInv, [Next]_vars
  PROVE  ControlInv'
<1>1. CASE ~ \E r \in Request : Handler(r)
  BY <1>1, OtherStep DEF ControlInv, Controlled
<1>2. ASSUME NEW r \in Request, Handler(r), NEW s \in Request
      PROVE  Controlled(s)'
  <2>1. CASE s = r
    BY <1>2, <2>1, ControlHandler
  <2>2. CASE s # r
    <3>1. /\ call'[s] = call[s] /\ pc'[s] = pc[s] /\ copy'[s] = copy[s]
          /\ code'[s] = code[s]
      BY <1>2, <2>2, HandlerEffect, HandlerOthersStay DEF OthersStay
    <3> QED
      BY <3>1 DEF ControlInv, Controlled
  <2> QED
    BY <2>1, <2>2
<1> QED
  BY <1>1, <1>2 DEF ControlInv

-----------------------------------------------------------------------------
(* What becomes of an object in one step *)

Kept(key) == objects'[key] = objects[key]

Gone(key) == objects'[key] = NoObject

Born(key) ==
  /\ ~ Exists(key) /\ objects'[key] # NoObject
  /\ revision' = revision + 1
  /\ objects'[key].uid = revision'
  /\ objects'[key].resourceVersion = revision'

WokenBy(r, key) ==
  /\ IsWake(r) /\ KeyOf(r) = key
  /\ pc[r] = "patch" /\ pc'[r] = "done"
  /\ copy[r].lastUsed # stamp[r]
  /\ objects'[key].lastUsed = stamp[r]

Changed(key) ==
  /\ Exists(key) /\ objects'[key] # NoObject
  /\ revision' = revision + 1
  /\ objects'[key].uid = objects[key].uid
  /\ objects'[key].resourceVersion = revision'
  /\ \/ objects'[key].lastUsed = objects[key].lastUsed
     \/ \E r \in Request : WokenBy(r, key)

Fate(key) == Kept(key) \/ Gone(key) \/ Born(key) \/ Changed(key)

LEMMA WriteFate ==
  ASSUME TypeOK, ControlInv, VersionInv, NEW r \in Request, Handler(r),
         Accepted(r), Write(r, KeyOf(r), Sent(r)), NEW key \in Key
  PROVE  Fate(key)
<1>1. KeyOf(r) \in Key /\ Sent(r) \in Object /\ Store(KeyOf(r), Sent(r))
  BY WriteType DEF Write
<1>2. CASE key # KeyOf(r) \/ objects' = objects
  BY <1>1, <1>2, StoreEffect DEF Fate, Kept, TypeOK
<1>3. CASE key = KeyOf(r) /\ objects' # objects
  <2>1. /\ revision' = revision + 1
        /\ objects'[key] # NoObject
        /\ objects'[key].uid = Sent(r).uid
        /\ objects'[key].resourceVersion = revision + 1
        /\ objects'[key].lastUsed = Sent(r).lastUsed
    BY <1>1, <1>3, StoreEffect DEF TypeOK
  <2>2. CASE pc[r] = "create"
    <3>1. Sent(r).uid = revision + 1 /\ ~ Exists(key)
      BY <1>3, <2>2 DEF Sent, NewObject, Accepted
    <3> QED
      BY <2>1, <3>1 DEF Fate, Born
  <2>3. CASE pc[r] = "update"
    <3>1. Exists(key) /\ objects[key] = copy[r] /\ copy[r] \in Object
      BY <1>1, <1>3, <2>3, SentType DEF Accepted, VersionInv, ControlInv, Controlled
    <3>2. Sent(r).uid = objects[key].uid /\ Sent(r).lastUsed = objects[key].lastUsed
      BY <2>3, <3>1 DEF Sent, Object
    <3> QED
      BY <2>1, <3>1, <3>2 DEF Fate, Changed
  <2>4. CASE pc[r] = "patch"
    <3>1. Exists(key) /\ objects[key] \in Object
      BY <1>1, <1>3, <2>4 DEF Accepted, TypeOK, Exists
    <3>2. /\ Sent(r).uid = objects[key].uid
          /\ Sent(r).lastUsed = IF copy[r].lastUsed = stamp[r]
                                THEN objects[key].lastUsed ELSE stamp[r]
      BY <1>3, <2>4, <3>1 DEF Sent, Object
    <3>3. IsWake(r)
      <4>1. call[r].op \in Op /\ "patch" \in StepsOf[call[r].op]
        BY <2>4, CallFields DEF ControlInv, Controlled, TypeOK, Step
      <4> QED
        BY <4>1 DEF StepsOf, Op, IsWake
    <3>4. pc'[r] = "done"
      BY DEF Write, Reply, TypeOK
    <3>5. CASE copy[r].lastUsed = stamp[r]
      BY <2>1, <3>1, <3>2, <3>5 DEF Fate, Changed
    <3>6. CASE copy[r].lastUsed # stamp[r]
      <4>1. WokenBy(r, key)
        BY <1>3, <2>1, <2>4, <3>2, <3>3, <3>4, <3>6 DEF WokenBy
      <4> QED
        BY <2>1, <3>1, <3>2, <4>1 DEF Fate, Changed
    <3> QED
      BY <3>5, <3>6
  <2> QED
    BY <2>2, <2>3, <2>4 DEF Accepted
<1> QED
  BY <1>2, <1>3

LEMMA ObjectFate ==
  ASSUME TypeOK, ControlInv, VersionInv, [Next]_vars, NEW key \in Key
  PROVE  Fate(key)
<1>1. ASSUME NEW r \in Request, Handler(r)
      PROVE  Fate(key)
  <2>1. CASE NoWrite
    BY <2>1 DEF NoWrite, Fate, Kept
  <2>2. CASE Accepted(r) /\ Write(r, KeyOf(r), Sent(r))
    BY <1>1, <2>2, WriteFate
  <2>3. CASE DeleteCR(r)
    BY <2>3 DEF DeleteCR, Fate, Kept, Gone, TypeOK
  <2> QED
    BY <1>1, <2>1, <2>2, <2>3, HandlerEffect DEF Effect
<1>2. ASSUME NEW other \in Key, OperatorReports(other)
      PROVE  Fate(key)
  <2>1. objects[other] \in Object
    BY <1>2 DEF OperatorReports, Exists, TypeOK
  <2> DEFINE new == [objects[other] EXCEPT !.resourceVersion = revision + 1]
  <2>2. /\ new \in Object /\ new.uid = objects[other].uid
        /\ new.resourceVersion = revision + 1
        /\ new.lastUsed = objects[other].lastUsed
    BY <2>1 DEF Object, TypeOK
  <2>3. objects' = [objects EXCEPT ![other] = new] /\ revision' = revision + 1
    BY <1>2 DEF OperatorReports
  <2>4. new # NoObject
    BY <2>2, CustomResourcesAssumption
  <2>5. CASE key = other
    <3>1. objects'[key] = new
      BY <2>3, <2>5 DEF TypeOK
    <3> QED
      BY <1>2, <2>2, <2>3, <2>4, <2>5, <3>1 DEF Fate, Changed, OperatorReports
  <2>6. CASE key # other
    BY <2>3, <2>6 DEF Fate, Kept, TypeOK
  <2> QED
    BY <2>5, <2>6
<1>3. ASSUME NEW other \in Key, PeopleEdit(other)
      PROVE  Fate(key)
  <2>1. PICK spec \in ManualSpec : Store(other, [objects[other] EXCEPT !.spec = spec])
    BY <1>3 DEF PeopleEdit
  <2> DEFINE new == [objects[other] EXCEPT !.spec = spec]
  <2>2. Exists(other) /\ objects[other] \in Object
    BY <1>3 DEF PeopleEdit, Exists, TypeOK
  <2>3. /\ new \in Object /\ new.uid = objects[other].uid
        /\ new.lastUsed = objects[other].lastUsed
    BY <2>2, EditType DEF Object
  <2>4. CASE key # other \/ objects' = objects
    BY <2>1, <2>3, <2>4, StoreEffect DEF Fate, Kept, TypeOK
  <2>5. CASE key = other /\ objects' # objects
    BY <2>1, <2>2, <2>3, <2>5, StoreEffect DEF Fate, Changed, TypeOK
  <2> QED
    BY <2>4, <2>5
<1>4. CASE MembersChange \/ Tick \/ UNCHANGED vars
  BY <1>4 DEF MembersChange, Tick, vars, Fate, Kept
<1> QED
  BY <1>1, <1>2, <1>3, <1>4 DEF Next

LEMMA RevisionGrows ==
  ASSUME TypeOK, ControlInv, [Next]_vars
  PROVE  revision' >= revision
<1>1. ASSUME NEW r \in Request, Handler(r)
      PROVE  revision' >= revision
  <2>1. CASE Accepted(r) /\ Write(r, KeyOf(r), Sent(r))
    BY <2>1, WriteType, StoreEffect DEF Write, TypeOK
  <2>2. CASE NoWrite \/ DeleteCR(r)
    BY <2>2 DEF NoWrite, DeleteCR, TypeOK
  <2> QED
    BY <1>1, <2>1, <2>2, HandlerEffect DEF Effect
<1>2. ASSUME NEW key \in Key, PeopleEdit(key)
      PROVE  revision' >= revision
  BY <1>2, EditType, StoreEffect DEF PeopleEdit, TypeOK
<1>3. CASE (\E key \in Key : OperatorReports(key)) \/ MembersChange \/ Tick
             \/ UNCHANGED vars
  BY <1>3 DEF OperatorReports, MembersChange, Tick, vars, TypeOK
<1> QED
  BY <1>1, <1>2, <1>3 DEF Next

\* A copy is taken of what is stored, and kept.
LEMMA CopyStep ==
  ASSUME TypeOK, ControlInv, [Next]_vars, NEW r \in Request
  PROVE  \/ copy'[r] = copy[r]
         \/ /\ pc[r] = "read" /\ Exists(KeyOf(r)) /\ KeyOf(r) \in Key
            /\ copy'[r] = objects[KeyOf(r)]
            /\ objects' = objects
<1>1. CASE ~ \E s \in Request : Handler(s)
  BY <1>1, OtherStep
<1>2. ASSUME NEW s \in Request, Handler(s), s # r
      PROVE  copy'[r] = copy[r]
  BY <1>2, HandlerOthersStay DEF OthersStay
<1>3. CASE Handler(r)
  <2>1. Progress(r)
    BY <1>3, HandlerProgress
  <2>2. CASE copy' = copy
    BY <2>2
  <2>3. CASE pc[r] = "read" /\ Exists(KeyOf(r))
               /\ copy' = [copy EXCEPT ![r] = objects[KeyOf(r)]]
    <3>1. objects' = objects
      BY <1>3, <2>3, HandlerEffect DEF NoWrite, Writing
    <3> QED
      BY <2>3, <3>1, SentType DEF TypeOK
  <2> QED
    BY <2>1, <2>2, <2>3 DEF Progress, GiveUp
<1> QED
  BY <1>1, <1>2, <1>3

LEMMA TargetStep ==
  ASSUME TypeOK, ControlInv, VersionInv, [Next]_vars, NEW r \in Request
  PROVE  target'[r] <= revision'
<1>0. target[r] <= revision /\ revision' >= revision /\ revision \in Nat
      /\ revision' \in Nat /\ target[r] \in Nat
  BY RevisionGrows, TypeStep DEF VersionInv, TypeOK
<1>1. CASE target'[r] = target[r]
  BY <1>0, <1>1
<1>2. CASE Handler(r)
  <2>1. CASE NoWrite
    BY <1>1, <2>1 DEF NoWrite
  <2>2. CASE DeleteCR(r)
    <3>1. KeyOf(r) \in Key
      BY <2>2, SentType DEF DeleteCR, Writing
    <3>2. Exists(KeyOf(r)) => objects[KeyOf(r)].uid <= revision
      BY <3>1 DEF VersionInv
    <3>3. target'[r] = IF Exists(KeyOf(r)) THEN objects[KeyOf(r)].uid ELSE 0
      BY <2>2 DEF DeleteCR, TypeOK
    <3>4. Exists(KeyOf(r)) => objects[KeyOf(r)].uid \in Nat
      BY <3>1 DEF TypeOK, Exists, Object
    <3> QED
      BY <1>0, <3>2, <3>3, <3>4
  <2>3. CASE Accepted(r) /\ Write(r, KeyOf(r), Sent(r))
    <3>1. /\ KeyOf(r) \in Key /\ Sent(r) \in Object /\ Store(KeyOf(r), Sent(r))
          /\ target'[r] = Sent(r).uid
      BY <2>3, WriteType DEF Write, TypeOK
    <3>2. \/ Exists(KeyOf(r)) /\ Sent(r).uid = objects[KeyOf(r)].uid
          \/ revision' = revision + 1 /\ objects'[KeyOf(r)].uid = Sent(r).uid
             /\ objects'[KeyOf(r)] # NoObject
      BY <3>1, StoreEffect DEF TypeOK
    <3>3. CASE Exists(KeyOf(r)) /\ Sent(r).uid = objects[KeyOf(r)].uid
      <4>1. objects[KeyOf(r)].uid <= revision /\ objects[KeyOf(r)].uid \in Nat
        BY <3>1, <3>3 DEF VersionInv, TypeOK, Exists, Object
      <4> QED
        BY <1>0, <3>1, <3>3, <4>1
    <3>4. CASE revision' = revision + 1 /\ objects'[KeyOf(r)].uid = Sent(r).uid
               /\ objects'[KeyOf(r)] # NoObject
      <4>1. Fate(KeyOf(r))
        BY <3>1, ObjectFate
      <4>2. Exists(KeyOf(r)) => /\ objects[KeyOf(r)].uid <= revision
                                /\ objects[KeyOf(r)].uid \in Nat
        BY <3>1 DEF VersionInv, TypeOK, Exists, Object
      <4> QED
        BY <1>0, <3>1, <3>4, <4>1, <4>2
           DEF Fate, Kept, Gone, Born, Changed, Exists
    <3> QED
      BY <3>2, <3>3, <3>4
  <2> QED
    BY <1>2, <2>1, <2>2, <2>3, HandlerEffect DEF Effect
<1>3. CASE ~ Handler(r)
  <2>1. CASE ~ \E s \in Request : Handler(s)
    BY <1>1, <2>1, OtherStep
  <2>2. ASSUME NEW s \in Request, Handler(s)
        PROVE  target'[r] <= revision'
    BY <1>1, <1>3, <2>2, HandlerOthersStay DEF OthersStay
  <2> QED
    BY <2>1, <2>2
<1> QED
  BY <1>2, <1>3

LEMMA VersionStep ==
  ASSUME TypeOK, ControlInv, VersionInv, [Next]_vars
  PROVE  VersionInv'
<1>0. revision' >= revision /\ revision \in Nat /\ revision' \in Nat
  BY RevisionGrows, TypeStep DEF TypeOK
<1>1. ASSUME NEW key \in Key, Exists(key)'
      PROVE  /\ objects'[key].uid <= revision'
             /\ objects'[key].resourceVersion <= revision'
  <2>1. Exists(key) => /\ objects[key].uid <= revision /\ objects[key].uid \in Nat
                       /\ objects[key].resourceVersion <= revision
                       /\ objects[key].resourceVersion \in Nat
    BY DEF VersionInv, TypeOK, Exists, Object
  <2>2. Fate(key)
    BY ObjectFate
  <2> QED
    BY <1>0, <1>1, <2>1, <2>2 DEF Fate, Kept, Gone, Born, Changed, Exists
<1>2. ASSUME NEW r \in Request, copy'[r] # NoObject
      PROVE  /\ copy'[r].uid <= revision'
             /\ copy'[r].resourceVersion <= revision'
             /\ ( /\ Exists(KeyOf(r))'
                  /\ objects'[KeyOf(r)].resourceVersion = copy'[r].resourceVersion )
                => objects'[KeyOf(r)] = copy'[r]
  <2>1. CASE copy'[r] = copy[r]
    <3>1. KeyOf(r) \in Key
      BY <1>2, <2>1, KeyType DEF ControlInv, Controlled, TypeOK
    <3>2. /\ copy[r].uid <= revision /\ copy[r].resourceVersion <= revision
          /\ copy[r].uid \in Nat /\ copy[r].resourceVersion \in Nat
      BY <1>2, <2>1 DEF VersionInv, TypeOK, Object
    <3>3. Fate(KeyOf(r))
      BY <3>1, ObjectFate
    <3>4. ( /\ objects'[KeyOf(r)] = objects[KeyOf(r)]
            /\ objects'[KeyOf(r)] # NoObject
            /\ objects'[KeyOf(r)].resourceVersion = copy'[r].resourceVersion )
          => objects'[KeyOf(r)] = copy'[r]
      BY <1>2, <2>1 DEF VersionInv, Exists
    <3>5. KeyOf(r)' = KeyOf(r)
      BY CallStays
    <3> QED
      BY <1>0, <2>1, <3>2, <3>3, <3>4, <3>5
         DEF Fate, Kept, Gone, Born, Changed, Exists
  <2>2. CASE /\ pc[r] = "read" /\ Exists(KeyOf(r)) /\ KeyOf(r) \in Key
             /\ copy'[r] = objects[KeyOf(r)]
             /\ objects' = objects
    <3>1. /\ objects[KeyOf(r)].uid <= revision
          /\ objects[KeyOf(r)].resourceVersion <= revision
          /\ objects[KeyOf(r)].uid \in Nat
          /\ objects[KeyOf(r)].resourceVersion \in Nat
      BY <2>2 DEF VersionInv, TypeOK, Exists, Object
    <3> QED
      BY <1>0, <2>2, <3>1
  <2> QED
    BY <2>1, <2>2, CopyStep
<1>3. \A r \in Request : KeyOf(r)' = KeyOf(r) /\ target'[r] <= revision'
  BY CallStays, TargetStep
<1> QED
  BY <1>1, <1>2, <1>3 DEF VersionInv

-----------------------------------------------------------------------------
(* Wakes *)

\* How a handler comes to stamp, to patch and to answer OK.
LEMMA WakeMoves ==
  ASSUME TypeOK, ControlInv, NEW r \in Request, Handler(r)
  PROVE  /\ pc'[r] = "stamp" => Read(r)
         /\ pc'[r] = "patch" => Stamp(r) \/ GiveUp(r)
         /\ pc'[r] \in Step => pc[r] \in Step \/ Begin(r)
         /\ (IsWake(r) /\ code'[r] = "OK" /\ code[r] # "OK") =>
              PatchCR(r) /\ Exists(KeyOf(r))
<1>op. call[r].op \in Op /\ (pc[r] \in Step => pc[r] \in StepsOf[call[r].op])
  BY CallFields DEF TypeOK, ControlInv, Controlled
<1>first. FirstStep[call[r].op] \notin {"stamp", "patch"}
  BY <1>op DEF FirstStep, Op
<1>reply. ASSUME NEW c \in Code, Reply(r, c)
          PROVE  pc'[r] = "done" /\ (code'[r] = "OK" => c = "OK" \/ code[r] = "OK")
  BY <1>reply DEF Reply, TypeOK
<1>goto. ASSUME NEW step, Goto(r, step)
         PROVE  pc'[r] = step /\ code'[r] = code[r]
  BY <1>goto DEF Goto, TypeOK
<1>goon. ASSUME GoOn(r)
         PROVE  pc'[r] \notin {"stamp", "patch"} /\ (code'[r] = "OK" => code[r] = "OK")
  BY <1>goon, <1>first, <1>reply, <1>goto DEF GoOn, Code
<1>1. CASE Begin(r)
  <2>1. \/ Reply(r, "Unauthenticated") \/ Reply(r, "InvalidArgument")
        \/ Goto(r, "checkMember")
    BY <1>1 DEF Begin
  <2>2. pc'[r] \notin {"stamp", "patch"} /\ (code'[r] = "OK" => code[r] = "OK")
    BY <1>reply, <1>goto, <2>1 DEF Code
  <2> QED
    BY <1>1, <2>2
<1>2. CASE CheckMember(r)
  BY <1>2, <1>reply, <1>goto, <1>goon DEF CheckMember, Code, Step
<1>3. CASE EnsureNs(r)
  BY <1>3, <1>goon DEF EnsureNs, Step
<1>4. CASE Look(r)
  <2>1. ~ IsWake(r)
    BY <1>4, <1>op DEF Look, IsWake, StepsOf, Step
  <2> QED
    BY <1>4, <1>reply, <2>1 DEF Look, Code, Step
<1>5. CASE Read(r)
  BY <1>5, <1>reply, <1>goto DEF Read, Code, Step
<1>6. CASE Stamp(r)
  BY <1>6, <1>goto DEF Stamp, Step
<1>7. CASE CreateCR(r) \/ UpdateCR(r) \/ DeleteCR(r)
  <2>1. ~ IsWake(r)
    BY <1>7, <1>op DEF CreateCR, UpdateCR, DeleteCR, IsWake, StepsOf, Step
  <2>2. \E c \in Code : Reply(r, c)
    BY <1>7 DEF CreateCR, UpdateCR, DeleteCR, Write, Refused, Code
  <2> QED
    BY <1>reply, <2>1, <2>2 DEF Step
<1>8. CASE PatchCR(r)
  BY <1>8, <1>reply DEF PatchCR, Write, Refused, Code, Step
<1>9. CASE CallFails(r)
  BY <1>9, <1>reply DEF CallFails, Code, Step
<1>10. CASE GiveUp(r)
  BY <1>10 DEF GiveUp, Writing, Step, TypeOK
<1> QED
  BY <1>1, <1>2, <1>3, <1>4, <1>5, <1>6, <1>7, <1>8, <1>9, <1>10 DEF Handler

\* The same, whoever takes the step.
LEMMA WakeProgress ==
  ASSUME TypeOK, ControlInv, [Next]_vars, NEW r \in Request
  PROVE  /\ now' >= now /\ now \in Nat /\ now' \in Nat
         /\ contested \subseteq contested'
         /\ \/ pc'[r] = pc[r] /\ stamp'[r] = stamp[r] /\ code'[r] = code[r]
            \/ Handler(r)
         /\ stamp'[r] = stamp[r] \/ Stamp(r)
<1>1. now' >= now /\ now \in Nat /\ now' \in Nat
  BY HandlerEffect, OtherStep DEF Tick, TypeOK
<1>2. CASE ~ \E s \in Request : Handler(s)
  BY <1>1, <1>2, OtherStep
<1>3. ASSUME NEW s \in Request, Handler(s)
      PROVE  /\ contested \subseteq contested'
             /\ s # r => pc'[r] = pc[r] /\ stamp'[r] = stamp[r] /\ code'[r] = code[r]
             /\ stamp'[r] = stamp[r] \/ Stamp(r)
  <2>1. contested \subseteq contested'
    BY <1>3, HandlerProgress DEF Progress, GiveUp, Elsewhere
  <2>2. s # r => pc'[r] = pc[r] /\ stamp'[r] = stamp[r] /\ code'[r] = code[r]
    BY <1>3, HandlerOthersStay DEF OthersStay
  <2>3. stamp'[s] = stamp[s] \/ Stamp(s)
    BY <1>3 DEF Handler, Begin, CheckMember, EnsureNs, Look, Read, CreateCR,
                UpdateCR, PatchCR, DeleteCR, CallFails, GiveUp
  <2> QED
    BY <2>1, <2>2, <2>3
<1> QED
  BY <1>1, <1>2, <1>3

LEMMA ContestedStep ==
  ASSUME TypeOK, ControlInv, WakeInv, [Next]_vars,
         NEW r \in Request, NEW s \in Request, r # s,
         IsWake(r), IsWake(s), KeyOf(r) = KeyOf(s), pc'[r] \in Step, pc'[s] \in Step
  PROVE  r \in contested'
<1>1. CASE pc[r] \in Step /\ pc[s] \in Step
  BY <1>1, WakeProgress DEF WakeInv
<1>2. ASSUME NEW q \in Request, Begin(q), pc'[q] \in Step, q \in {r, s}
      PROVE  r \in contested'
  <2>1. PICK p \in {r, s} : p # q
    BY <1>2
  <2>2. pc[p] \in Step
    <3>1. Handler(q)
      BY <1>2 DEF Handler
    <3>2. pc'[p] = pc[p]
      BY <2>1, <3>1, HandlerOthersStay DEF OthersStay
    <3> QED
      BY <3>2
  <2>3. p \in Wakes(KeyOf(q))
    BY <1>2, <2>1, <2>2 DEF Wakes, IsWake
  <2> QED
    BY <1>2, <2>1, <2>3 DEF Begin, IsWake
<1>3. \A q \in {r, s} : pc[q] \notin Step => Begin(q)
  BY WakeProgress, WakeMoves
<1> QED
  BY <1>1, <1>2, <1>3

\* An uncontested wake is the only one on its way to its builder.
LEMMA Alone ==
  ASSUME WakeInv, NEW r \in Request, NEW s \in Request, r # s, IsWake(r), IsWake(s),
         KeyOf(r) = KeyOf(s), r \notin contested, pc[r] \in Step
  PROVE  pc[s] \notin Step
BY DEF WakeInv

\* What another handler or the environment does to the builder of a wake that
\* is alone, or over, does not change when it was last used, except to a time
\* that a later wake has stamped.
LEMMA LastUsedStep ==
  ASSUME TypeOK, ControlInv, VersionInv, [Next]_vars, NEW key \in Key,
         NEW uid \in Nat, uid <= revision,
         objects'[key] # NoObject, objects'[key].uid = uid
  PROVE  /\ Exists(key) /\ objects[key].uid = uid
         /\ \/ objects'[key].lastUsed = objects[key].lastUsed
            \/ \E r \in Request : WokenBy(r, key)
<1>1. Fate(key)
  BY ObjectFate
<1>2. ~ Born(key)
  BY DEF Born, TypeOK
<1> QED
  BY <1>1, <1>2 DEF Fate, Kept, Gone, Changed, Exists

LEMMA ReadsCurrent ==
  ASSUME TypeOK, ControlInv, VersionInv, WakeInv, [Next]_vars,
         NEW r \in Request, r \notin contested', IsWake(r), pc'[r] \in {"stamp", "patch"},
         Exists(KeyOf(r))', objects'[KeyOf(r)].uid = copy'[r].uid
  PROVE  objects'[KeyOf(r)].lastUsed = copy'[r].lastUsed
<1>1. CASE Read(r)
  <2>1. Handler(r) /\ KeyOf(r) \in Key
    BY <1>1, SentType DEF Handler, Read
  <2>2. pc'[r] # "done" /\ objects' = objects
    BY <1>1 DEF Read, NoWrite
  <2>3. copy'[r] = objects[KeyOf(r)]
    BY <1>1, <2>2 DEF Read, Reply, TypeOK
  <2> QED
    BY <2>2, <2>3
<1>2. CASE ~ Read(r)
  <2>1. pc[r] \in {"stamp", "patch"}
    <3>1. pc'[r] = pc[r] \/ Stamp(r) \/ GiveUp(r)
      BY <1>2, WakeProgress, WakeMoves
    <3> QED
      BY <3>1 DEF Stamp, GiveUp
  <2>2. copy'[r] = copy[r] /\ copy[r] # NoObject /\ KeyOf(r) \in Key
    <3>1. copy'[r] = copy[r]
      BY <2>1, CopyStep
    <3> QED
      BY <2>1, <3>1, KeyType DEF ControlInv, Controlled, TypeOK
  <2>3. copy[r].uid \in Nat /\ copy[r].uid <= revision
    BY <2>2 DEF VersionInv, TypeOK, Object
  <2>4. /\ Exists(KeyOf(r)) /\ objects[KeyOf(r)].uid = copy[r].uid
        /\ \/ objects'[KeyOf(r)].lastUsed = objects[KeyOf(r)].lastUsed
           \/ \E s \in Request : WokenBy(s, KeyOf(r))
    BY <2>2, <2>3, CallStays, LastUsedStep DEF Exists
  <2>5. r \notin contested
    BY WakeProgress
  <2>6. ~ \E s \in Request : WokenBy(s, KeyOf(r))
    <3> SUFFICES ASSUME NEW s \in Request, WokenBy(s, KeyOf(r))
                 PROVE  FALSE
      OBVIOUS
    <3>1. s # r
      BY DEF WokenBy
    <3> QED
      BY <2>1, <2>5, <3>1, Alone DEF WokenBy, Step
  <2>7. objects[KeyOf(r)].lastUsed = copy[r].lastUsed
    BY <2>1, <2>4, <2>5 DEF WakeInv
  <2> QED
    BY <2>2, <2>4, <2>6, <2>7, CallStays
<1> QED
  BY <1>1, <1>2

\* A wake becomes OK while no other is on its way to the builder.
LEMMA StampsOrdered ==
  ASSUME TypeOK, ControlInv, WakeInv, [Next]_vars,
         NEW r \in Request, r \notin contested', IsWake(r), code'[r] = "OK",
         NEW s \in Request, IsWake(s), pc'[s] = "patch", KeyOf(r) = KeyOf(s)
  PROVE  stamp'[r] <= stamp'[s]
<1>0. r \notin contested /\ now \in Nat /\ stamp[r] \in Nat
  BY WakeProgress DEF TypeOK
<1>1. CASE code[r] = "OK"
  <2>1. pc[r] = "done" /\ stamp[r] <= now
    BY <1>1 DEF ControlInv, Controlled, WakeInv
  <2>2. stamp'[r] = stamp[r]
    BY <2>1, WakeProgress DEF Stamp
  <2>3. CASE Stamp(s)
    BY <2>1, <2>2, <2>3 DEF Stamp, TypeOK
  <2>4. CASE ~ Stamp(s)
    <3>1. pc[s] = "patch" /\ stamp'[s] = stamp[s]
      BY <2>4, WakeProgress, WakeMoves DEF GiveUp
    <3> QED
      BY <1>0, <1>1, <2>2, <3>1 DEF WakeInv
  <2> QED
    BY <2>3, <2>4
<1>2. CASE code[r] # "OK"
  <2>1. PatchCR(r) /\ Handler(r)
    BY <1>2, WakeProgress, WakeMoves
  <2>2. r # s
    BY <2>1 DEF PatchCR, Write, Refused, Reply, TypeOK
  <2>3. pc[s] = "patch"
    BY <2>1, <2>2, HandlerOthersStay DEF OthersStay
  <2> QED
    BY <1>0, <2>1, <2>2, <2>3, Alone DEF PatchCR, Step
<1> QED
  BY <1>1, <1>2

LEMMA WakeStep ==
  ASSUME TypeOK, ControlInv, VersionInv, WakeInv, [Next]_vars
  PROVE  WakeInv'
<1>1. ASSUME NEW r \in Request
      PROVE  stamp'[r] <= now' /\ (pc'[r] = "patch" => stamp'[r] > 0)
  <2>1. CASE Stamp(r)
    BY <2>1 DEF Stamp, Elsewhere, TypeOK
  <2>2. CASE ~ Stamp(r)
    <3>1. stamp'[r] = stamp[r] /\ stamp[r] <= now /\ stamp[r] \in Nat
      BY <2>2, WakeProgress DEF WakeInv, TypeOK
    <3>2. pc'[r] = "patch" => pc[r] = "patch"
      BY <2>2, WakeProgress, WakeMoves DEF GiveUp
    <3> QED
      BY <3>1, <3>2, WakeProgress DEF WakeInv
  <2> QED
    BY <2>1, <2>2
<1>2. \A r \in Request : KeyOf(r)' = KeyOf(r) /\ IsWake(r)' = IsWake(r)
  BY CallStays
<1>3. \A r, s \in Request :
        ( /\ r # s /\ IsWake(r)' /\ IsWake(s)' /\ KeyOf(r)' = KeyOf(s)'
          /\ pc'[r] \in Step /\ pc'[s] \in Step ) => r \in contested'
  BY <1>2, ContestedStep
<1>4. \A r \in Request \ contested' :
        ( /\ IsWake(r)' /\ pc'[r] \in {"stamp", "patch"} /\ Exists(KeyOf(r))'
          /\ objects'[KeyOf(r)'].uid = copy'[r].uid )
        => objects'[KeyOf(r)'].lastUsed = copy'[r].lastUsed
  BY <1>2, ReadsCurrent
<1>5. \A r \in Request \ contested', s \in Request :
        ( /\ IsWake(r)' /\ code'[r] = "OK"
          /\ IsWake(s)' /\ pc'[s] = "patch" /\ KeyOf(r)' = KeyOf(s)' )
        => stamp'[r] <= stamp'[s]
  BY <1>2, StampsOrdered
<1> QED
  BY <1>1, <1>3, <1>4, <1>5 DEF WakeInv

LEMMA DoneStays ==
  ASSUME TypeOK, ControlInv, [Next]_vars, NEW r \in Request, pc[r] = "done"
  PROVE  /\ code'[r] = code[r] /\ copy'[r] = copy[r]
         /\ stamp'[r] = stamp[r] /\ target'[r] = target[r]
<1>1. ~ Handler(r)
  BY HandlerProgress DEF Progress, Step
<1>2. CASE ~ \E s \in Request : Handler(s)
  BY <1>2, OtherStep
<1>3. ASSUME NEW s \in Request, Handler(s)
      PROVE  /\ code'[r] = code[r] /\ copy'[r] = copy[r]
             /\ stamp'[r] = stamp[r] /\ target'[r] = target[r]
  BY <1>1, <1>3, HandlerOthersStay DEF OthersStay
<1> QED
  BY <1>2, <1>3

LEMMA WakeSticksStep ==
  ASSUME TypeOK, ControlInv, VersionInv, WakeInv, WakeSticks, [Next]_vars
  PROVE  WakeSticks'
<1> SUFFICES ASSUME NEW r \in Request, r \notin contested', IsWake(r), code'[r] = "OK",
                    objects'[KeyOf(r)] # NoObject,
                    objects'[KeyOf(r)].uid = target'[r], copy'[r].uid = target'[r]
             PROVE  objects'[KeyOf(r)].lastUsed >= stamp'[r]
  BY CallStays DEF WakeSticks, IsWake
<1>0. r \notin contested
  BY WakeProgress
<1>key. KeyOf(r) \in Key /\ copy'[r] # NoObject
  <2>1. TypeOK' /\ ControlInv' /\ call' = call
    BY TypeStep, ControlStep, CallStays
  <2> QED
    BY <2>1, KeyType DEF ControlInv, Controlled, TypeOK, IsWake
<1>1. CASE code[r] = "OK"
  <2>1. /\ copy'[r] = copy[r] /\ stamp'[r] = stamp[r] /\ target'[r] = target[r]
        /\ target[r] \in Nat /\ target[r] <= revision
    BY <1>1, DoneStays DEF ControlInv, Controlled, VersionInv, TypeOK
  <2>2. /\ Exists(KeyOf(r)) /\ objects[KeyOf(r)].uid = target[r]
        /\ \/ objects'[KeyOf(r)].lastUsed = objects[KeyOf(r)].lastUsed
           \/ \E s \in Request : WokenBy(s, KeyOf(r))
    BY <1>key, <2>1, LastUsedStep
  <2>3. objects[KeyOf(r)].lastUsed >= stamp[r]
    BY <1>0, <1>1, <2>1, <2>2 DEF WakeSticks, IsWake, Exists
  <2>4. ASSUME NEW s \in Request, WokenBy(s, KeyOf(r))
        PROVE  objects'[KeyOf(r)].lastUsed >= stamp[r]
    <3>1. stamp[r] <= stamp[s] /\ stamp[r] \in Nat /\ stamp[s] \in Nat
      BY <1>0, <1>1, <2>4 DEF WokenBy, WakeInv, TypeOK
    <3> QED
      BY <2>4, <3>1 DEF WokenBy
  <2> QED
    BY <2>1, <2>2, <2>3, <2>4
<1>2. CASE code[r] # "OK"
  <2>1. PatchCR(r) /\ Exists(KeyOf(r)) /\ Handler(r)
    BY <1>2, WakeProgress, WakeMoves
  <2>2. /\ Accepted(r) /\ Write(r, KeyOf(r), Sent(r))
        /\ copy' = copy /\ stamp' = stamp /\ pc[r] = "patch"
    BY <2>1 DEF PatchCR, Accepted, Sent
  <2>3. objects[KeyOf(r)] \in Object /\ stamp[r] \in Nat
    BY <1>key, <2>1 DEF TypeOK, Exists
  <2>4. /\ Sent(r).uid = objects[KeyOf(r)].uid
        /\ Sent(r).lastUsed = IF copy[r].lastUsed = stamp[r]
                              THEN objects[KeyOf(r)].lastUsed ELSE stamp[r]
    BY <2>2, <2>3 DEF Sent, Object
  <2>5. target'[r] = objects[KeyOf(r)].uid
    BY <2>2, <2>4 DEF Write, TypeOK
  <2>6. objects'[KeyOf(r)].lastUsed = Sent(r).lastUsed
    BY <2>2, WriteType, StoreEffect DEF Write, TypeOK
  <2>7. objects[KeyOf(r)].lastUsed = copy[r].lastUsed
    BY <1>0, <2>1, <2>2, <2>5 DEF WakeInv
  <2> QED
    BY <2>2, <2>3, <2>4, <2>6, <2>7
<1> QED
  BY <1>1, <1>2

-----------------------------------------------------------------------------
(* The theorems *)

LEMMA InitInv == Init => IInv
<1> SUFFICES ASSUME Init
             PROVE  IInv
  OBVIOUS
<1>1. TypeOK
  BY DEF Init, TypeOK, Code
<1>2. ControlInv
  BY DEF Init, ControlInv, Controlled, Step, Writing
<1>3. VersionInv
  BY DEF Init, VersionInv, Exists
<1>4. WakeInv /\ WakeSticks
  BY DEF Init, WakeInv, WakeSticks, Step, Exists
<1> QED
  BY <1>1, <1>2, <1>3, <1>4 DEF IInv

LEMMA InvStep == IInv /\ [Next]_vars => IInv'
BY TypeStep, ControlStep, VersionStep, WakeStep, WakeSticksStep DEF IInv

\* The inductive invariant: a resourceVersion identifies what was stored under
\* it, which is what makes Get followed by Update safe (handlers.go:147-155), and
\* wakes of a builder that do not overlap stamp it in order (handlers.go:205).
THEOREM Inductive == Spec => []IInv
<1>1. Init => IInv
  BY InitInv
<1>2. IInv /\ [Next]_vars => IInv'
  BY InvStep
<1> QED
  BY <1>1, <1>2, PTL DEF Spec

\* Every handler is at one of its steps and what the API server stores is what
\* the conversions of a request produce, or a person wrote.
THEOREM TypeCorrect == Spec => []TypeOK
BY Inductive, PTL DEF IInv

\* A wake without a rival is not undone by any update of the same builder
\* (WakeBuilder's merge patch, UpdateBuilder's conditional Update).
THEOREM WakesStick == Spec => []WakeSticks
BY Inductive, PTL DEF IInv

\* UpdateBuilder and UpdateTemplate replace the very object they read, whatever
\* is written between their Get and their Update.
LEMMA LandsOnCopy ==
  ASSUME IInv, [Next]_vars, NEW r \in Request, Lands(r)
  PROVE  objects[KeyOf(r)] = copy[r]
<1>1. Handler(r)
  <2>1. ASSUME NEW s \in Request, Handler(s), s # r
        PROVE  FALSE
    BY <2>1, HandlerOthersStay DEF Lands, OthersStay, IInv
  <2> QED
    BY <2>1, OtherStep DEF Lands
<1>2. Accepted(r)
  BY <1>1, HandlerEffect DEF Lands, Effect, NoWrite, DeleteCR, IInv
<1> QED
  BY <1>2 DEF Lands, Accepted, IInv, VersionInv, ControlInv, Controlled

THEOREM UpdatesReplaceWhatTheyRead == Spec => NoLostUpdate
<1>1. IInv /\ [Next]_vars =>
        [\A r \in Request : Lands(r) => objects[KeyOf(r)] = copy[r]]_vars
  BY LandsOnCopy
<1> QED
  BY <1>1, Inductive, PTL DEF Spec, NoLostUpdate

\* A number that is not there is shown as its default, and one that is there as it is.
LEMMA NumberShown ==
  ASSUME NEW N, N \subseteq Int, Nil \notin N, NEW n \in N \cup {Nil}, ~ ZeroOrLess(n),
         NEW default \in N, default > 0,
         NEW shown, shown = IF n = Nil THEN default ELSE n
  PROVE  shown > 0 /\ shown # Nil
<1>1. n # Nil => n \in Int /\ n > 0
  <2>1. n # Nil => n \in N
    OBVIOUS
  <2>2. n # Nil => ~ (n <= 0)
    BY Zenon DEF ZeroOrLess
  <2>. QED BY <2>1, <2>2
<1>2. shown > 0
  BY <1>1
<1>3. shown # Nil
  BY Zenon
<1>. QED BY <1>2, <1>3

\* The conversions undo each other, up to what the operator makes of a spec.
LEMMA ConversionsAgree ==
  ASSUME NEW s \in CRSpec, ~ Unsayable(s)
  PROVE  Meaning(ToCR(ToProto(s))) = Meaning(s)
<1>1. CASE s \in [kind : {"builder"}, ref : Ref \cup {Nil}, replicas : Replicas \cup {Nil},
                  idle : IdleTimeout \cup {Nil}, rest : Rest]
  <2>1. /\ s.kind = "builder" /\ s.ref \in Ref \cup {Nil}
        /\ s.replicas \in Replicas \cup {Nil} /\ s.idle \in IdleTimeout \cup {Nil}
    BY <1>1
  <2>2. ~ ZeroOrLess(s.replicas) /\ ~ ZeroOrLess(s.idle)
    BY <2>1, Zenon DEF Unsayable
  <2>. DEFINE n == IF s.replicas = Nil THEN 1 ELSE s.replicas
              i == IF s.idle = Nil THEN 300 ELSE s.idle
              f == IF s.ref = Nil THEN "" ELSE s.ref
  <2>3. (IF n > 0 THEN n ELSE Nil) = n /\ n # Nil
    <3>1. Replicas \subseteq Int /\ Nil \notin Replicas /\ 1 \in Replicas
      BY CRSpecsAssumption, Zenon
    <3>2. 1 > 0
      OBVIOUS
    <3>3. n = IF s.replicas = Nil THEN 1 ELSE s.replicas
      BY Zenon
    <3>4. s.replicas \in Replicas \cup {Nil} /\ ~ ZeroOrLess(s.replicas)
      BY <2>1, <2>2, Zenon
    <3>. HIDE DEF n
    <3>5. n > 0 /\ n # Nil
      BY <3>1, <3>2, <3>3, <3>4, NumberShown
    <3>. QED BY <3>5, Zenon
  <2>4. (IF i > 0 THEN i ELSE Nil) = i /\ i # Nil
    <3>. DEFINE default == 300
    <3>1. IdleTimeout \subseteq Int /\ Nil \notin IdleTimeout /\ default \in IdleTimeout
      BY CRSpecsAssumption, Zenon
    <3>2. default > 0
      OBVIOUS
    <3>3. i = IF s.idle = Nil THEN default ELSE s.idle
      BY Zenon
    <3>4. s.idle \in IdleTimeout \cup {Nil} /\ ~ ZeroOrLess(s.idle)
      BY <2>1, <2>2, Zenon
    <3>. HIDE DEF i, default
    <3>5. i > 0 /\ i # Nil
      BY <3>1, <3>2, <3>3, <3>4, NumberShown
    <3>. QED BY <3>5, Zenon
  <2>5. (IF f = "" THEN Nil ELSE f) = s.ref
    BY <2>1, CRSpecsAssumption
  <2>6. ToProto(s) = [kind |-> "builder", ref |-> f, replicas |-> n, idle |-> i,
                      rest |-> s.rest]
    BY <2>1, Zenon DEF ToProto, CRToProto, n, i, f
  <2>7. Meaning(s) = <<s.ref, n, i, s.rest>>
    BY <2>1, Zenon DEF Meaning, n, i
  <2>. HIDE DEF n, i, f
  <2>8. ToCR(ToProto(s)) = [kind |-> "builder", ref |-> s.ref, replicas |-> n, idle |-> i,
                            rest |-> s.rest]
    <3>1. /\ ToProto(s).kind = "builder" /\ ToProto(s).ref = f
          /\ ToProto(s).replicas = n /\ ToProto(s).idle = i /\ ToProto(s).rest = s.rest
      BY <2>6
    <3>. QED BY <2>3, <2>4, <2>5, <3>1, Zenon DEF ToCR, ProtoSpecToCR
  <2>9. Meaning(ToCR(ToProto(s))) = <<s.ref, n, i, s.rest>>
    BY <2>3, <2>4, <2>8 DEF Meaning
  <2>. QED BY <2>7, <2>9, Zenon
<1>2. CASE s \in [kind : {"template"}, limit : Parsable \cup {Nil}, rest : Rest,
                  extra : Extra \cup {Nil}]
  <2>1. s.kind = "template" /\ s.limit \in Parsable \cup {Nil} /\ s.extra = Nil
    BY <1>2 DEF Unsayable
  <2>. DEFINE q == IF s.limit = Nil THEN Nil ELSE Canonical[s.limit]
  <2>2. q = Nil \/ (q \in Parsable /\ q # Nil /\ Canonical[q] = q)
    BY <2>1, CRSpecsAssumption
  <2>3. Nil \notin Parsable
    BY CRSpecsAssumption
  <2>4. ToProto(s) = [kind |-> "template", limit |-> q, rest |-> s.rest]
    BY <2>1 DEF ToProto, TemplateSpecToProto
  <2>5. Meaning(s) = <<q, s.rest, Nil>>
    BY <2>1 DEF Meaning
  <2>. HIDE DEF q
  <2>6. ToCR(ToProto(s)) = [kind |-> "template", limit |-> q, rest |-> s.rest, extra |-> Nil]
    BY <2>2, <2>3, <2>4 DEF ToCR, ProtoSpecToTemplateSpec
  <2>. QED BY <2>2, <2>5, <2>6 DEF Meaning
<1>. QED BY <1>1, <1>2 DEF CRSpec

\* What Get shows and Update takes back is the same builder or template to the operator.
THEOREM SentBackStays == Spec => []SentBackIsTheSame
<1>1. TypeOK => SentBackIsTheSame
  <2>1. SUFFICES ASSUME TypeOK, NEW key \in Key, Exists(key),
                        ~ Unsayable(objects[key].spec)
                 PROVE  Meaning(ToCR(ToProto(objects[key].spec))) = Meaning(objects[key].spec)
    BY DEF SentBackIsTheSame
  <2>2. objects[key].spec \in CRSpec
    BY <2>1 DEF TypeOK, Exists, Object
  <2>. QED BY <2>1, <2>2, ConversionsAgree
<1>. QED BY <1>1, TypeCorrect, PTL

-----------------------------------------------------------------------------
(* CustomResources implements ResourceCatalog *)

catalog == [key \in Key |-> EntryOf(key)]

LEMMA SameEntries ==
  ASSUME \A key \in Key : EntryOf(key)' = EntryOf(key)
  PROVE  catalog' = catalog
BY DEF catalog

LEMMA OneEntry ==
  ASSUME NEW key \in Key,
         \A other \in Key : other # key => objects'[other] = objects[other]
  PROVE  /\ catalog' = [catalog EXCEPT ![key] = EntryOf(key)']
         /\ EntryOf(key)' = EntryOf(key) => catalog' = catalog
<1>1. \A other \in Key : other # key => EntryOf(other)' = EntryOf(other)
  BY DEF EntryOf, Exists
<1> QED
  BY <1>1 DEF catalog

\* An entry stands for an object, and only for one.
LEMMA PresentEntry ==
  ASSUME objects \in [Key -> Object \cup {NoObject}], NEW key \in Key
  PROVE  Exists(key) <=> EntryOf(key) # NoObject
<1>1. ASSUME Exists(key)
      PROVE  EntryOf(key) # NoObject
  <2>1. objects[key] \in Object
    BY <1>1 DEF Exists
  <2>2. EntryOf(key) \in Shown
    BY <1>1, <2>1 DEF EntryOf, Shown, Object
  <2> QED
    BY <2>2, CustomResourcesAssumption
<1> QED
  BY <1>1 DEF EntryOf

\* A step that changes one object changes its entry as one of the operations of
\* ResourceCatalog does, or not at all.
Steps(key) ==
  \/ \E spec \in CRSpec :
       \/ ~ Exists(key) /\ EntryOf(key)' = [spec |-> spec, lastUsed |-> 0]
       \/ Exists(key) /\ EntryOf(key)' = [EntryOf(key) EXCEPT !.spec = spec]
  \/ \E time \in 1 .. now :
       /\ key.kind = "builder" /\ Exists(key)
       /\ EntryOf(key)' = [EntryOf(key) EXCEPT !.lastUsed = time]
  \/ Exists(key) /\ EntryOf(key)' = NoObject
  \/ EntryOf(key)' = EntryOf(key)

LEMMA StepsCatalog ==
  ASSUME TypeOK, NEW key \in Key,
         \A other \in Key : other # key => objects'[other] = objects[other],
         now' = now, Steps(key)
  PROVE  [Catalog!CatalogNext]_<<catalog, now>>
<1>1. /\ catalog' = [catalog EXCEPT ![key] = EntryOf(key)']
      /\ EntryOf(key)' = EntryOf(key) => catalog' = catalog
      /\ catalog[key] = EntryOf(key)
  BY OneEntry DEF catalog
<1>2. Exists(key) <=> EntryOf(key) # NoObject
  BY PresentEntry DEF TypeOK
<1>3. key \in Catalog!Key
  BY DEF Key, Catalog!Key
<1>4. ASSUME NEW spec \in CRSpec, ~ Exists(key),
             EntryOf(key)' = [spec |-> spec, lastUsed |-> 0]
      PROVE  Catalog!Add(key, spec)
  BY <1>1, <1>2, <1>4 DEF Catalog!Add, Catalog!Present, catalog
<1>5. ASSUME NEW spec \in CRSpec, Exists(key),
             EntryOf(key)' = [EntryOf(key) EXCEPT !.spec = spec]
      PROVE  Catalog!Respecify(key, spec)
  BY <1>1, <1>2, <1>5 DEF Catalog!Respecify, Catalog!Present, catalog
<1>6. ASSUME NEW time \in 1 .. now, key.kind = "builder", Exists(key),
             EntryOf(key)' = [EntryOf(key) EXCEPT !.lastUsed = time]
      PROVE  Catalog!Wake(key, time)
  BY <1>1, <1>2, <1>6 DEF Catalog!Wake, Catalog!Present, catalog
<1>7. ASSUME Exists(key), EntryOf(key)' = NoObject
      PROVE  Catalog!Remove(key)
  BY <1>1, <1>2, <1>7 DEF Catalog!Remove, Catalog!Present, catalog
<1> QED
  BY <1>1, <1>3, <1>4, <1>5, <1>6, <1>7 DEF Steps, Catalog!CatalogNext

\* The entry of an object that was written: that of what was sent.
LEMMA StoredEntry ==
  ASSUME TypeOK, NEW key \in Key, NEW obj \in Object, Store(key, obj)
  PROVE  EntryOf(key)' = [spec |-> obj.spec, lastUsed |-> obj.lastUsed]
BY StoreEffect DEF EntryOf, Exists, TypeOK

LEMMA WriteSteps ==
  ASSUME IInv, NEW r \in Request, Accepted(r), Write(r, KeyOf(r), Sent(r)),
         NEW key \in Key, key = KeyOf(r)
  PROVE  Steps(key)
<1>0. TypeOK /\ ControlInv /\ VersionInv /\ WakeInv
  BY DEF IInv
<1>1. key \in Key /\ Sent(r) \in Object /\ Store(key, Sent(r))
  BY <1>0, WriteType DEF Write
<1>2. EntryOf(key)' = [spec |-> Sent(r).spec, lastUsed |-> Sent(r).lastUsed]
  BY <1>0, <1>1, StoredEntry
<1>3. CASE pc[r] = "create"
  <2>1. Sent(r).spec = ToCR(call[r].spec) /\ Sent(r).lastUsed = 0 /\ ~ Exists(key)
    BY <1>3 DEF Sent, NewObject, Accepted
  <2>2. ToCR(call[r].spec) \in CRSpec
    BY <1>0, <1>3, SentType
  <2> QED
    BY <1>2, <2>1, <2>2 DEF Steps
<1>4. CASE pc[r] = "update"
  <2>1. Exists(key) /\ objects[key] = copy[r] /\ copy[r] \in Object
    BY <1>0, <1>1, <1>4, SentType DEF Accepted, VersionInv, ControlInv, Controlled
  <2>2. ToCR(call[r].spec) \in CRSpec
    BY <1>0, <1>4, SentType
  <2>3. Sent(r).spec = ToCR(call[r].spec) /\ Sent(r).lastUsed = objects[key].lastUsed
    BY <1>4, <2>1 DEF Sent, Object
  <2>4. EntryOf(key)' = [EntryOf(key) EXCEPT !.spec = ToCR(call[r].spec)]
    BY <1>2, <2>1, <2>3 DEF EntryOf
  <2> QED
    BY <2>1, <2>2, <2>4 DEF Steps
<1>5. CASE pc[r] = "patch"
  <2>1. Exists(key) /\ objects[key] \in Object
    BY <1>0, <1>1, <1>5 DEF Accepted, TypeOK, Exists
  <2>2. /\ Sent(r).spec = objects[key].spec
        /\ Sent(r).lastUsed = IF copy[r].lastUsed = stamp[r]
                              THEN objects[key].lastUsed ELSE stamp[r]
    BY <1>5, <2>1 DEF Sent, Object
  <2>3. stamp[r] \in 1 .. now
    BY <1>0, <1>5 DEF WakeInv, TypeOK
  <2>4. key.kind = "builder"
    <3>1. call[r].op \in Op /\ "patch" \in StepsOf[call[r].op]
      BY <1>0, <1>5, CallFields DEF ControlInv, Controlled, TypeOK, Step
    <3>2. call[r].op = "wake"
      BY <3>1 DEF StepsOf, Op
    <3> QED
      BY <1>0, <3>2, CallFields DEF KeyOf, TypeOK
  <2>5. CASE copy[r].lastUsed = stamp[r]
    BY <1>2, <2>1, <2>2, <2>5 DEF EntryOf, Steps
  <2>6. CASE copy[r].lastUsed # stamp[r]
    <3>1. EntryOf(key)' = [EntryOf(key) EXCEPT !.lastUsed = stamp[r]]
      BY <1>2, <2>1, <2>2, <2>6 DEF EntryOf
    <3> QED
      BY <2>1, <2>3, <2>4, <3>1 DEF Steps
  <2> QED
    BY <2>5, <2>6
<1> QED
  BY <1>3, <1>4, <1>5 DEF Accepted

LEMMA CatalogStep ==
  ASSUME IInv, [Next]_vars
  PROVE  [Catalog!CatalogNext]_<<catalog, now>>
<1>0. TypeOK /\ ControlInv
  BY DEF IInv
<1>same. ASSUME objects' = objects, now' = now
         PROVE  [Catalog!CatalogNext]_<<catalog, now>>
  BY <1>same DEF catalog, EntryOf, Exists
<1>1. ASSUME NEW r \in Request, Handler(r)
      PROVE  [Catalog!CatalogNext]_<<catalog, now>>
  <2>0. now' = now
    BY <1>0, <1>1, HandlerEffect
  <2>1. CASE NoWrite
    BY <1>same, <2>0, <2>1 DEF NoWrite
  <2>2. CASE Accepted(r) /\ Write(r, KeyOf(r), Sent(r))
    <3>1. PICK key \in Key : key = KeyOf(r)
      BY <1>0, <2>2, WriteType
    <3>2. \A other \in Key : other # key => objects'[other] = objects[other]
      BY <1>0, <2>2, <3>1, WriteType, StoreEffect DEF Write, TypeOK
    <3> QED
      BY <1>0, <2>0, <2>2, <3>1, <3>2, WriteSteps, StepsCatalog
  <2>3. CASE DeleteCR(r)
    <3>1. PICK key \in Key : key = KeyOf(r)
      BY <1>0, <2>3, SentType DEF DeleteCR, Writing
    <3>2. /\ objects'[key] = NoObject
          /\ \A other \in Key : other # key => objects'[other] = objects[other]
      BY <1>0, <2>3, <3>1 DEF DeleteCR, TypeOK
    <3>3. Steps(key)
      BY <3>2 DEF Steps, EntryOf, Exists
    <3> QED
      BY <1>0, <2>0, <3>2, <3>3, StepsCatalog
  <2> QED
    BY <1>0, <1>1, <2>1, <2>2, <2>3, HandlerEffect DEF Effect
<1>2. ASSUME NEW key \in Key, OperatorReports(key)
      PROVE  [Catalog!CatalogNext]_<<catalog, now>>
  <2>1. objects[key] \in Object /\ now' = now
    BY <1>0, <1>2 DEF OperatorReports, Exists, TypeOK
  <2> DEFINE new == [objects[key] EXCEPT !.resourceVersion = revision + 1]
  <2>2. objects' = [objects EXCEPT ![key] = new]
    BY <1>2 DEF OperatorReports
  <2>3. new \in Object /\ new.spec = objects[key].spec
        /\ new.lastUsed = objects[key].lastUsed
    BY <1>0, <2>1 DEF Object, TypeOK
  <2>4. new # NoObject /\ objects'[key] = new
        /\ \A other \in Key : other # key => objects'[other] = objects[other]
    BY <1>0, <2>2, <2>3, CustomResourcesAssumption DEF TypeOK
  <2>5. EntryOf(key)' = EntryOf(key)
    BY <1>2, <2>3, <2>4 DEF OperatorReports, EntryOf, Exists
  <2> QED
    BY <1>0, <2>1, <2>4, <2>5, StepsCatalog DEF Steps
<1>3. ASSUME NEW key \in Key, PeopleEdit(key)
      PROVE  [Catalog!CatalogNext]_<<catalog, now>>
  <2>1. PICK spec \in ManualSpec : Store(key, [objects[key] EXCEPT !.spec = spec])
    BY <1>3 DEF PeopleEdit
  <2> DEFINE new == [objects[key] EXCEPT !.spec = spec]
  <2>2. Exists(key) /\ objects[key] \in Object /\ now' = now /\ spec \in CRSpec
    BY <1>0, <1>3, CustomResourcesAssumption DEF PeopleEdit, Exists, TypeOK
  <2>3. new \in Object /\ new.spec = spec /\ new.lastUsed = objects[key].lastUsed
    BY <1>0, <2>2, EditType DEF Object
  <2>4. EntryOf(key)' = [spec |-> spec, lastUsed |-> objects[key].lastUsed]
    BY <1>0, <2>1, <2>3, StoredEntry
  <2>5. EntryOf(key)' = [EntryOf(key) EXCEPT !.spec = spec]
    BY <2>2, <2>4 DEF EntryOf
  <2>6. \A other \in Key : other # key => objects'[other] = objects[other]
    BY <1>0, <2>1, <2>3, StoreEffect DEF TypeOK
  <2> QED
    BY <1>0, <2>2, <2>5, <2>6, StepsCatalog DEF Steps
<1>4. CASE Tick
  <2>1. catalog' = catalog
    BY <1>4 DEF Tick, catalog, EntryOf, Exists
  <2> QED
    BY <1>4, <2>1 DEF Tick, Catalog!CatalogNext, Catalog!Advance, catalog
<1>5. CASE MembersChange \/ UNCHANGED vars
  BY <1>5, <1>same DEF MembersChange, vars
<1> QED
  BY <1>1, <1>2, <1>3, <1>4, <1>5 DEF Next

\* CustomResources implements ResourceCatalog: though UpdateBuilder,
\* UpdateTemplate and WakeBuilder read first and write later, every call takes
\* effect in one step, and neither an update nor a wake takes back the other.
THEOREM Implements == Spec => KeepsCatalog
<1>1. Init => Catalog!CatalogInit
  BY DEF Init, Catalog!CatalogInit, Catalog!Key, Key, EntryOf, Exists
<1>2. IInv /\ [Next]_vars =>
        [Catalog!CatalogNext]_<<[key \in Key |-> EntryOf(key)], now>>
  BY CatalogStep DEF catalog
<1> QED
  BY <1>1, <1>2, Inductive, PTL DEF Spec, KeepsCatalog, Catalog!CatalogSpec

-----------------------------------------------------------------------------
(* What the promises of the catalog mean for the handlers *)

\* An entry that is there shows a spec and a time.
LEMMA EntryShape ==
  ASSUME TypeOK, NEW key \in Key
  PROVE  /\ catalog[key] = EntryOf(key)
         /\ Catalog!Present(key) <=> Exists(key)
         /\ Exists(key) => EntryOf(key) = [spec |-> EntryOf(key).spec,
                                           lastUsed |-> EntryOf(key).lastUsed]
BY PresentEntry DEF catalog, TypeOK, Catalog!Present, EntryOf

\* A step on one entry changes its spec or its time of last use, unless it makes or
\* removes the entry.
LEMMA EntryChangesApart ==
  ASSUME TypeOK, NEW key \in Key,
         \/ \E spec \in CRSpec : Catalog!Add(key, spec) \/ Catalog!Respecify(key, spec)
         \/ \E time \in 1 .. now : Catalog!Wake(key, time)
         \/ Catalog!Remove(key)
  PROVE  Catalog!ChangesApart
<1> SUFFICES ASSUME NEW other \in Key, Exists(other), catalog'[other] # NoObject
             PROVE  \/ catalog'[other].spec = catalog[other].spec
                    \/ catalog'[other].lastUsed = catalog[other].lastUsed
  BY EntryShape DEF Catalog!ChangesApart, Catalog!Key, Key, catalog
<1>1. Catalog!Present(key) <=> Exists(key)
  BY EntryShape
<1>2. CASE other # key
  <2>1. PICK entry : catalog' = [catalog EXCEPT ![key] = entry]
    BY DEF Catalog!Add, Catalog!Respecify, Catalog!Wake, Catalog!Remove, catalog
  <2> QED
    BY <1>2, <2>1 DEF catalog
<1>3. CASE other = key
  <2>1. catalog[key] = [spec |-> EntryOf(key).spec, lastUsed |-> EntryOf(key).lastUsed]
    BY <1>3, EntryShape
  <2>2. ASSUME NEW spec \in CRSpec, Catalog!Add(key, spec) PROVE FALSE
    BY <1>1, <1>3, <2>2 DEF Catalog!Add
  <2>3. ASSUME NEW spec \in CRSpec, Catalog!Respecify(key, spec)
        PROVE  catalog'[other].lastUsed = catalog[other].lastUsed
    BY <1>3, <2>1, <2>3 DEF Catalog!Respecify, catalog
  <2>4. ASSUME NEW time \in 1 .. now, Catalog!Wake(key, time)
        PROVE  catalog'[other].spec = catalog[other].spec
    BY <1>3, <2>1, <2>4 DEF Catalog!Wake, catalog
  <2>5. ASSUME Catalog!Remove(key) PROVE FALSE
    BY <1>3, <2>5 DEF Catalog!Remove, catalog
  <2> QED
    BY <2>2, <2>3, <2>4, <2>5
<1> QED
  BY <1>2, <1>3

LEMMA EntriesChangeApartStep ==
  ASSUME TypeOK, [Catalog!CatalogNext]_<<catalog, now>>
  PROVE  Catalog!ChangesApart \/ UNCHANGED <<catalog, now>>
<1>1. Catalog!Key = Key
  BY DEF Catalog!Key, Key
<1>2. ASSUME catalog' = catalog PROVE Catalog!ChangesApart
  BY <1>2 DEF Catalog!ChangesApart, catalog
<1> QED
  BY <1>1, <1>2, EntryChangesApart DEF Catalog!CatalogNext, Catalog!Advance, catalog

\* The time of last use of one entry.
PastUse(key) ==
  /\ catalog[key].lastUsed \in 0 .. now
  /\ key.kind # "builder" => catalog[key].lastUsed = 0

LEMMA PastUses ==
  ASSUME TypeOK
  PROVE  Catalog!UsedInThePast <=> \A key \in Key : Exists(key) => PastUse(key)
<1>1. Catalog!Key = Key
  BY DEF Catalog!Key, Key
<1>2. \A key \in Key : Catalog!Present(key) <=> Exists(key)
  BY EntryShape
<1> QED
  BY <1>1, <1>2 DEF Catalog!UsedInThePast, PastUse, catalog

\* The same, a step later.
LEMMA PastUsesNext ==
  ASSUME TypeOK'
  PROVE  (\A key \in Key : catalog'[key] # NoObject => PastUse(key)')
           => Catalog!UsedInThePast'
<1>1. Catalog!Key = Key
  BY DEF Catalog!Key, Key
<1> QED
  BY <1>1 DEF Catalog!UsedInThePast, Catalog!Present, PastUse, catalog

\* A step on one entry keeps the times of all in the past.
LEMMA EntryUsedInThePast ==
  ASSUME TypeOK, TypeOK', now' = now, Catalog!UsedInThePast, NEW key \in Key,
         \/ \E spec \in CRSpec : Catalog!Add(key, spec) \/ Catalog!Respecify(key, spec)
         \/ \E time \in 1 .. now : Catalog!Wake(key, time)
         \/ Catalog!Remove(key)
  PROVE  Catalog!UsedInThePast'
<1> SUFFICES ASSUME NEW other \in Key, catalog'[other] # NoObject
             PROVE  PastUse(other)'
  BY PastUsesNext
<1>0. now \in Nat
  BY DEF TypeOK
<1>1. Catalog!Present(key) <=> Exists(key)
  BY EntryShape
<1>2. CASE other # key
  <2>1. PICK entry : catalog' = [catalog EXCEPT ![key] = entry]
    BY DEF Catalog!Add, Catalog!Respecify, Catalog!Wake, Catalog!Remove, catalog
  <2>2. catalog'[other] = catalog[other]
    BY <1>2, <2>1 DEF catalog
  <2>3. Exists(other)
    BY <2>2, EntryShape DEF Catalog!Present, catalog
  <2> QED
    BY <2>2, <2>3, PastUses DEF PastUse
<1>3. CASE other = key
  <2>1. Exists(key) => PastUse(key)
    BY PastUses
  <2>2. Exists(key) => catalog[key] = [spec |-> EntryOf(key).spec,
                                       lastUsed |-> EntryOf(key).lastUsed]
    BY EntryShape
  <2>3. ASSUME NEW spec \in CRSpec, Catalog!Add(key, spec) PROVE PastUse(key)'
    <3>1. catalog'[key].lastUsed = 0
      BY <2>3 DEF Catalog!Add, catalog
    <3> QED
      BY <1>0, <3>1 DEF PastUse
  <2>4. ASSUME NEW spec \in CRSpec, Catalog!Respecify(key, spec) PROVE PastUse(key)'
    <3>1. Exists(key) /\ catalog'[key].lastUsed = catalog[key].lastUsed
      BY <1>1, <2>2, <2>4 DEF Catalog!Respecify, catalog
    <3> QED
      BY <2>1, <3>1 DEF PastUse
  <2>5. ASSUME NEW time \in 1 .. now, Catalog!Wake(key, time) PROVE PastUse(key)'
    <3>1. key.kind = "builder" /\ catalog'[key].lastUsed = time
      BY <1>1, <2>2, <2>5 DEF Catalog!Wake, catalog
    <3>2. time \in 0 .. now'
      BY <1>0
    <3> QED
      BY <3>1, <3>2 DEF PastUse
  <2>6. ASSUME Catalog!Remove(key) PROVE FALSE
    BY <1>3, <2>6 DEF Catalog!Remove, catalog
  <2> QED
    BY <1>3, <2>3, <2>4, <2>5, <2>6
<1> QED
  BY <1>2, <1>3

LEMMA UsedInThePastStep ==
  ASSUME TypeOK, TypeOK', Catalog!UsedInThePast, [Catalog!CatalogNext]_<<catalog, now>>
  PROVE  Catalog!UsedInThePast'
<1>0. Catalog!Key = Key /\ now \in Nat
  BY DEF Catalog!Key, Key, TypeOK
<1>1. ASSUME catalog' = catalog, now' = now \/ now' = now + 1
      PROVE  Catalog!UsedInThePast'
  <2> SUFFICES ASSUME NEW key \in Key, catalog'[key] # NoObject
               PROVE  PastUse(key)'
    BY PastUsesNext
  <2>1. PastUse(key)
    BY <1>1, PastUses, EntryShape DEF Catalog!Present, catalog
  <2>2. 0 .. now \subseteq 0 .. now'
    BY <1>0, <1>1
  <2> QED
    BY <1>1, <2>1, <2>2 DEF PastUse
<1>2. CASE Catalog!Advance
  BY <1>1, <1>2 DEF Catalog!Advance, catalog
<1>3. ASSUME NEW key \in Key, now' = now,
             \/ Catalog!Remove(key)
             \/ \E spec \in CRSpec : Catalog!Add(key, spec) \/ Catalog!Respecify(key, spec)
             \/ \E time \in 1 .. now : Catalog!Wake(key, time)
      PROVE  Catalog!UsedInThePast'
  BY <1>3, EntryUsedInThePast
<1> QED
  BY <1>0, <1>1, <1>2, <1>3 DEF Catalog!CatalogNext, catalog

\* So, for the handlers that get and then write: no call changes both the spec of a builder
\* and the time it was last used, a wake puts that time no later than the clock it read, and
\* templates have none (handlers.go:147-155, 192-206, templates/service.go:114-124).
THEOREM CatalogMeansIt ==
  Spec => Catalog!EntriesChangeApart /\ []Catalog!UsedInThePast
<1>1. IInv /\ [Next]_vars =>
        [Catalog!ChangesApart]_<<[key \in Key |-> EntryOf(key)], now>>
  BY CatalogStep, EntriesChangeApartStep DEF IInv, catalog
<1>2. Init => Catalog!UsedInThePast
  BY DEF Init, Catalog!UsedInThePast, Catalog!Present, Catalog!Key, Key, EntryOf, Exists
<1>3. IInv /\ IInv' /\ Catalog!UsedInThePast /\ [Next]_vars => Catalog!UsedInThePast'
  BY CatalogStep, UsedInThePastStep DEF IInv
<1> QED
  BY <1>1, <1>2, <1>3, Inductive, PTL DEF Spec, Catalog!EntriesChangeApart
=============================================================================
