---------------------- MODULE CustomResourcesInvariants ----------------------
(***************************************************************************)
(* The inductive invariant behind the properties of module                 *)
(* CustomResourcesProperties.                                              *)
(***************************************************************************)
EXTENDS CustomResourcesProperties

StepsOf == [list   |-> {"checkMember", "look"},
            get    |-> {"checkMember", "look"},
            create |-> {"checkMember", "ensureNs", "create"},
            update |-> {"checkMember", "read", "update"},
            delete |-> {"checkMember", "delete"},
            wake   |-> {"checkMember", "read", "stamp", "patch"}]

\* A handler is at a step of its own operation, has looked at the name and the
\* spec before it sends them, has a copy before it writes one, and answers OK
\* when it is done.
Controlled(r) ==
  /\ pc[r] \in Step => pc[r] \in StepsOf[call[r].op]
  /\ pc[r] \in Writing \cup {"read", "stamp"} => call[r].name # ""
  /\ (pc[r] \in {"create", "update"} \/ (pc[r] = "read" /\ call[r].op = "update"))
       => call[r].spec # Nil
  /\ copy[r] # NoObject => call[r].name # ""
  /\ pc[r] \in {"update", "stamp", "patch"} => copy[r] # NoObject
  /\ code[r] = "OK" => /\ pc[r] = "done"
                       /\ call[r].op = "wake" => copy[r] # NoObject

ControlInv == \A r \in Request : Controlled(r)

\* One resourceVersion, one object: what is read and what is stored under one
\* version is the same, and versions to come are larger than those given out.
VersionInv ==
  /\ \A key \in Key : Exists(key) => /\ objects[key].uid <= revision
                                     /\ objects[key].resourceVersion <= revision
  /\ \A r \in Request :
       /\ target[r] <= revision
       /\ copy[r] # NoObject =>
            /\ copy[r].uid <= revision
            /\ copy[r].resourceVersion <= revision
            /\ ( /\ Exists(KeyOf(r))
                 /\ objects[KeyOf(r)].resourceVersion = copy[r].resourceVersion )
               => objects[KeyOf(r)] = copy[r]

IsWake(r) == call[r].op = "wake"

\* Wakes of one builder that run at the same time know of each other; without a
\* rival, a wake finds the last-used time it has read, and those that stamp
\* after it is over stamp no earlier time.
WakeInv ==
  /\ \A r \in Request : stamp[r] <= now /\ (pc[r] = "patch" => stamp[r] > 0)
  /\ \A r, s \in Request :
       ( /\ r # s /\ IsWake(r) /\ IsWake(s) /\ KeyOf(r) = KeyOf(s)
         /\ pc[r] \in Step /\ pc[s] \in Step ) => r \in contested
  /\ \A r \in Request \ contested :
       ( /\ IsWake(r) /\ pc[r] \in {"stamp", "patch"} /\ Exists(KeyOf(r))
         /\ objects[KeyOf(r)].uid = copy[r].uid )
       => objects[KeyOf(r)].lastUsed = copy[r].lastUsed
  /\ \A r \in Request \ contested, s \in Request :
       ( /\ IsWake(r) /\ code[r] = "OK"
         /\ IsWake(s) /\ pc[s] = "patch" /\ KeyOf(r) = KeyOf(s) )
       => stamp[r] <= stamp[s]

IInv == TypeOK /\ ControlInv /\ VersionInv /\ WakeInv /\ WakeSticks
=============================================================================
