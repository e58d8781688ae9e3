------------------------- MODULE LifecycleProperties -------------------------
(***************************************************************************)
(* What clients and operators may count on when a replica starts and       *)
(* stops.                                                                  *)
(***************************************************************************)
EXTENDS Lifecycle

\* The shape of the process and of the requests it serves (cmd/server/main.go).
TypeOK ==
  /\ main \in {"connect", "client", "listen", "register", "notify", "wait", "graceful",
               "shutdown", "return", "ended"}
  /\ ended \in {"no", "fatal", "signal", "killed", "returned"}
  /\ pool \in {"none", "open", "closed"}
  /\ lis \in {"none", "open", "closed"}
  /\ grpcServer \in {"none", "started", "serving", "broken", "stopped"}
  /\ httpServer \in {"none", "started", "serving", "failed", "broken", "closed"}
  /\ stop \in BOOLEAN
  /\ at \in [Request -> Active \cup {"new", "answered", "cut"}]
  /\ answer \in [Request -> {"none", "Served", "Unavailable", "InvalidArgument"}]
  /\ taken \subseteq Request

\* A replica that is told to stop, and is left the time to, cuts nobody off: not those
\* whose handlers run, nor those who wait for the gateway (main.go:115-119).
NothingCutOff == ended = "returned" => \A r \in Request : at[r] # "cut"

\* No handler is left running with a pool that is closed (main.go:45, 118).
HandlersHaveThePool == \A r \in Request : at[r] = "running" => pool = "open"

\* A request that was answered Unavailable was not taken up, and may be sent again to
\* another replica, whatever it was (main.go:118-119).
RefusedDidNotRun == \A r \in Request : answer[r] = "Unavailable" => r \notin taken

\* The gateway does not refuse before the replica was told to stop, unless the gRPC
\* server broke down: not while it starts, however its goroutines are scheduled
\* (main.go:69-80, 107-112).
RefusedOnlyAtTheEnd ==
  \A r \in ViaHTTP : answer[r] = "Unavailable" => stop \/ grpcServer = "broken"

\* It is for the client to go on: to send what it began to send, to read its answer, to end
\* its stream.
WaitsForClient(r) ==
  \/ at[r] \in {"reading", "receiving", "responding"}
  \/ r \in Stream /\ at[r] = "running"

Patient(r) == []<> ~ WaitsForClient(r)

\* A signal, once it is waited for, ends the process, if no client keeps it waiting for
\* ever: main waits for nothing that waits for main (main.go:67, 106, 115-119).
StopsInTheEnd == (\A r \in Request : Patient(r)) => (stop ~> main = "ended")

\* Every request that is sent to the gateway and every call that is taken is answered or cut
\* off, however long other clients keep the replica waiting: when the gRPC server breaks
\* down or is stopped, the gateway does not wait for it (main.go:75-80, 107-119).
EverybodyHears ==
  \A r \in Request : Patient(r) =>
    (at[r] \in Active \ {"connected"} ~> at[r] \in {"answered", "cut"})

-----------------------------------------------------------------------------
(* What a replica promises *)

PhaseOf ==
  IF main = "ended" THEN (IF ended = "returned" THEN "left" ELSE "dead")
  ELSE IF main \in {"shutdown", "return"} THEN "closing"
  ELSE IF main = "graceful" THEN "draining"
  ELSE IF grpcServer \in {"serving", "broken"} THEN "open" ELSE "starting"

FateOf(r) ==
  IF answer[r] = "Served" THEN "served"
  ELSE IF answer[r] \in {"Unavailable", "InvalidArgument"} THEN "refused"
  ELSE IF r \notin taken THEN "none"
  ELSE IF main = "ended" THEN "lost" ELSE "working"

Fates == [r \in Request |-> FateOf(r)]

Come == {r \in ViaHTTP : at[r] \in Active}

Held == {r \in ViaHTTP : at[r] \in Active \ {"connected"}}

R == INSTANCE Replica WITH
  Client <- Request, phase <- PhaseOf, fate <- Fates, come <- Come, held <- Held

\* The process keeps the promises of Replica: a request is begun while the gRPC server takes
\* calls and never twice, main goes on when what it waits for is over, what it waits for was
\* connected before, and it returns when nobody waits any more (main.go:75-80, 107-119).
KeepsReplica == R!ReplicaSpec
=============================================================================
