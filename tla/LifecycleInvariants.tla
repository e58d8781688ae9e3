------------------------- MODULE LifecycleInvariants -------------------------
(***************************************************************************)
(* The inductive invariant of Lifecycle: how far main got says what may be *)
(* going on in the goroutines, and where a request is what was done for it. *)
(***************************************************************************)
EXTENDS LifecycleProperties

\* What main opens and closes is what the rest of the process finds, for as long as
\* there is a process (cmd/server/main.go:41-119).
MainKnows ==
  /\ main \in {"client", "listen", "register", "notify", "wait", "graceful", "shutdown"}
       => pool = "open"
  /\ main \in {"connect", "client", "listen"} => grpcServer = "none"
  /\ main \in {"register", "notify", "wait"} => grpcServer # "none"
  /\ main \in {"connect", "client", "listen", "register"} => httpServer = "none"
  /\ main \in {"graceful", "shutdown", "return"} => grpcServer = "stopped"
  /\ main \in {"shutdown", "return"} => httpServer = "closed"
  /\ ended = "no" <=> main # "ended"

\* The gateway is there after the gRPC listener, which is closed by the end of Serve
\* only, and stopped by a signal only (cmd/server/main.go:69-80, 106-118).
ListenerFirst ==
  /\ grpcServer # "none" => lis # "none"
  /\ httpServer # "none" => grpcServer # "none"
  /\ lis = "closed" => grpcServer \in {"broken", "stopped"}
  /\ grpcServer = "stopped" => stop

\* Where a request is, the servers are or were (cmd/server/main.go:75-112).
RequestsRight ==
  \A r \in Request :
    /\ r \in Direct => at[r] \notin {"connected", "reading", "accepted"}
    /\ r \in ViaHTTP => at[r] # "receiving"
    /\ at[r] \in {"connected", "reading", "accepted"} => httpServer # "none"
    /\ InGRPC(r) => main \in {"register", "notify", "wait", "graceful"}
    /\ main \in {"return", "ended"} => at[r] \notin Active
    /\ at[r] = "cut" => main = "ended"
    /\ at[r] \in {"new", "connected", "reading", "accepted"} =>
         answer[r] = "none" /\ r \notin taken

\* Who runs has begun and has no answer, who left the handler has one
\* (cmd/server/main.go:60-62, 75-80).
AnswersRight ==
  \A r \in Request :
    /\ at[r] \in {"receiving", "running"} => r \in taken /\ answer[r] = "none"
    /\ at[r] \in {"responding", "answered"} => answer[r] # "none"
    /\ r \in taken /\ answer[r] = "none" => at[r] \in {"receiving", "running", "cut"}

IInv ==
  /\ TypeOK
  /\ MainKnows
  /\ ListenerFirst
  /\ RequestsRight
  /\ AnswersRight
  /\ NothingCutOff
  /\ RefusedDidNotRun
  /\ RefusedOnlyAtTheEnd
=============================================================================
