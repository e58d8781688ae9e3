------------------------------ MODULE Lifecycle ------------------------------
(***************************************************************************)
(* The process of cmd/server/main.go from its start to its end: two        *)
(* servers in goroutines of their own, the HTTP gateway calling the gRPC   *)
(* server of the same process, and signals that stop it.                   *)
(*                                                                         *)
(* What a request asks for does not matter here (see Gateway); where it is *)
(* when the process ends does.  There are no timeouts: each wait is for    *)
(* what is there at that time, the clients who send and read at their own  *)
(* pace among it.                                                          *)
(***************************************************************************)
CONSTANTS
  Request,
  Direct,   \* those of gRPC clients; the others come through the gateway
  Stream    \* streams of the reflection service, which go on while the client likes

ASSUME LifecycleAssumption == Direct \subseteq Request /\ Stream \subseteq Direct

VARIABLES
  main,       \* where main is
  ended,      \* how the process ended
  pool,       \* of connections to PostgreSQL
  lis,        \* the gRPC listener
  grpcServer,
  httpServer,
  stop,       \* whether there is a signal in the channel
  at,         \* where a request is
  answer,
  \* The following is there for the properties only.
  taken       \* requests the gRPC server took up

process == <<main, ended, pool, lis, grpcServer, httpServer, stop>>
requests == <<at, answer, taken>>
vars == <<process, requests>>

ViaHTTP == Request \ Direct

Init ==
  /\ main = "connect"
  /\ ended = "no"
  /\ pool = "none"
  /\ lis = "none"
  /\ grpcServer = "none"
  /\ httpServer = "none"
  /\ stop = FALSE
  /\ at = [r \in Request |-> "new"]
  /\ answer = [r \in Request |-> "none"]
  /\ taken = {}

\* The process is gone, and what it was doing for clients with it.
Active == {"connected", "reading", "accepted", "receiving", "running", "responding"}

End(how) ==
  /\ main' = "ended"
  /\ ended' = how
  /\ at' = [r \in Request |-> IF at[r] \in Active THEN "cut" ELSE at[r]]
  /\ UNCHANGED <<lis, grpcServer, httpServer, stop, answer, taken>>

\* sugar.Fatalf: os.Exit, and no deferred call.
Fatal == End("fatal") /\ UNCHANGED pool

-----------------------------------------------------------------------------
(* main *)

\* NewPool, with its Ping.
Connect ==
  /\ main = "connect"
  /\ \/ Fatal
     \/ /\ pool' = "open"
        /\ main' = "client"
        /\ UNCHANGED <<ended, lis, grpcServer, httpServer, stop, requests>>

\* NewK8sClient.
Client ==
  /\ main = "client"
  /\ \/ Fatal
     \/ /\ main' = "listen"
        /\ UNCHANGED <<ended, pool, lis, grpcServer, httpServer, stop, requests>>

\* With a bug: main does not listen, but leaves that to the goroutine.
Listen_InGoroutine ==
  /\ main = "listen"
  /\ main' = "register"
  /\ grpcServer' = "started"
  /\ UNCHANGED <<ended, pool, lis, httpServer, stop, requests>>

\* net.Listen, and the goroutine of grpcServer.Serve.
Listen ==
  /\ main = "listen"
  /\ \/ Fatal
     \/ /\ lis' = "open"
        /\ grpcServer' = "started"
        /\ main' = "register"
        /\ UNCHANGED <<ended, pool, httpServer, stop, requests>>

\* The four Register...HandlerFromEndpoint, which dial when they are first used, and
\* the goroutine of ListenAndServe.
Register ==
  /\ main = "register"
  /\ \/ Fatal
     \/ /\ httpServer' = "started"
        /\ main' = "notify"
        /\ UNCHANGED <<ended, pool, lis, grpcServer, stop, requests>>

\* signal.Notify.
Notify ==
  /\ main = "notify"
  /\ main' = "wait"
  /\ UNCHANGED <<ended, pool, lis, grpcServer, httpServer, stop, requests>>

\* With a bug: grpcServer.Stop, which cancels what is running.
GracefulStop_Cancels ==
  /\ main = "wait" /\ stop
  /\ main' = "graceful"
  /\ lis' = "closed"
  /\ grpcServer' = "stopped"
  /\ at' = [r \in Request |-> IF at[r] = "running" THEN "responding" ELSE at[r]]
  /\ answer' = [r \in Request |-> IF at[r] = "running" THEN "Unavailable" ELSE answer[r]]
  /\ UNCHANGED <<ended, pool, httpServer, stop, taken>>

\* The beginning of grpcServer.GracefulStop: no more calls.  The listener is closed
\* if Serve has it by now.
GracefulStop ==
  /\ main = "wait" /\ stop
  /\ main' = "graceful"
  /\ lis' = IF grpcServer = "started" THEN lis ELSE "closed"
  /\ grpcServer' = "stopped"
  /\ UNCHANGED <<ended, pool, httpServer, stop, requests>>

\* With a bug: what is running is not waited for.
Shutdown_AtOnce ==
  /\ main = "graceful"
  /\ main' = "shutdown"
  /\ httpServer' = "closed"
  /\ UNCHANGED <<ended, pool, lis, grpcServer, stop, requests>>

\* The gRPC server is at it: its handler runs, or a stream of its client is open.
InGRPC(r) ==
  at[r] \in {"receiving", "running"} \/ (r \in Direct /\ at[r] = "responding")

\* Its end, and the beginning of httpServer.Shutdown: no more HTTP connections.
Shutdown ==
  /\ main = "graceful"
  /\ \A r \in Request : ~ InGRPC(r)
  /\ main' = "shutdown"
  /\ httpServer' = "closed"
  /\ UNCHANGED <<ended, pool, lis, grpcServer, stop, requests>>

\* With a bug: httpServer.Close in the place of Shutdown.
Return_AtOnce ==
  /\ main = "shutdown"
  /\ pool' = "closed"
  /\ main' = "return"
  /\ UNCHANGED <<ended, lis, grpcServer, httpServer, stop, requests>>

\* Its end, and the deferred pool.Close.
Return ==
  /\ main = "shutdown"
  /\ \A r \in ViaHTTP : at[r] \notin Active
  /\ pool' = "closed"
  /\ main' = "return"
  /\ UNCHANGED <<ended, lis, grpcServer, httpServer, stop, requests>>

Exit == main = "return" /\ End("returned") /\ UNCHANGED pool

Main ==
  \/ Connect \/ Client \/ Listen \/ Register \/ Notify
  \/ GracefulStop \/ Shutdown \/ Return \/ Exit

-----------------------------------------------------------------------------
(* The goroutines of the servers *)

\* Serve, which closes the listener when the server was stopped before.
ServeGRPC ==
  /\ main # "ended"
  /\ \/ /\ grpcServer = "started"
        /\ grpcServer' = "serving"
        /\ UNCHANGED lis
     \/ /\ grpcServer = "stopped" /\ lis = "open"
        /\ lis' = "closed"
        /\ UNCHANGED grpcServer
  /\ UNCHANGED <<main, ended, pool, httpServer, stop, requests>>

\* Serve returns an error, which is logged.  What is connected stays so.
BreakGRPC ==
  /\ main # "ended" /\ grpcServer = "serving"
  /\ grpcServer' = "broken"
  /\ lis' = "closed"
  /\ UNCHANGED <<main, ended, pool, httpServer, stop, requests>>

\* The address may be in use.
ServeHTTP ==
  /\ main # "ended" /\ httpServer = "started"
  /\ httpServer' \in {"serving", "failed"}
  /\ UNCHANGED <<main, ended, pool, lis, grpcServer, stop, requests>>

BreakHTTP ==
  /\ main # "ended" /\ httpServer = "serving"
  /\ httpServer' = "broken"
  /\ UNCHANGED <<main, ended, pool, lis, grpcServer, stop, requests>>

-----------------------------------------------------------------------------
(* Requests *)

Moves(r, from, to) ==
  /\ main # "ended" /\ at[r] = from
  /\ at' = [at EXCEPT ![r] = to]

\* Somebody connects to the gateway.
Accept(r) ==
  /\ httpServer = "serving" /\ r \in ViaHTTP
  /\ Moves(r, "new", "connected")
  /\ UNCHANGED <<process, answer, taken>>

\* And begins to send a request, even if the listener is closed meanwhile.
Ask(r) ==
  /\ Moves(r, "connected", "reading")
  /\ UNCHANGED <<process, answer, taken>>

\* Shutdown closes connections on which nothing was sent, new ones after 5 seconds.
CloseIdle(r) ==
  /\ main = "shutdown"
  /\ Moves(r, "connected", "new")
  /\ UNCHANGED <<process, answer, taken>>

Done(r, from, to, ans) ==
  /\ Moves(r, from, to)
  /\ answer' = [answer EXCEPT ![r] = ans]
  /\ UNCHANGED <<process, taken>>

\* The gateway has read all of it, for as long as the client takes to send it, and
\* may not understand it.
Read(r) ==
  \/ /\ Moves(r, "reading", "accepted")
     /\ UNCHANGED <<process, answer, taken>>
  \/ Done(r, "reading", "responding", "InvalidArgument")

\* With a bug: calls on connections that are open are taken while the server stops.
Run_WhileStopping(r) ==
  /\ grpcServer \in {"serving", "broken", "stopped"}
  /\ Moves(r, "accepted", "running")
  /\ taken' = taken \cup {r}
  /\ UNCHANGED <<process, answer>>

\* The call of the gateway gets to the handler.
Run(r) ==
  /\ grpcServer \in {"serving", "broken"}
  /\ Moves(r, "accepted", "running")
  /\ taken' = taken \cup {r}
  /\ UNCHANGED <<process, answer>>

\* The server takes the call of a gRPC client, whose message is still to come.
Take(r) ==
  /\ grpcServer \in {"serving", "broken"} /\ r \in Direct
  /\ Moves(r, "new", "receiving")
  /\ taken' = taken \cup {r}
  /\ UNCHANGED <<process, answer>>

Receive(r) ==
  /\ Moves(r, "receiving", "running")
  /\ UNCHANGED <<process, answer, taken>>

\* With a bug: the gateway dials with WaitForReady.
Refuse_WaitForReady(r) ==
  /\ lis # "open" /\ r \in Direct
  /\ Done(r, "new", "answered", "Unavailable")

\* Either finds no listener.  While there is one, it waits.
Refuse(r) ==
  /\ lis # "open"
  /\ \/ r \in Direct /\ Done(r, "new", "answered", "Unavailable")
     \/ Done(r, "accepted", "responding", "Unavailable")

Handle(r) == Done(r, "running", "responding", "Served")

\* The client has read the answer.
Respond(r) ==
  /\ Moves(r, "responding", "answered")
  /\ UNCHANGED <<process, answer, taken>>

-----------------------------------------------------------------------------
(* The environment *)

\* SIGTERM or SIGINT.  It ends a process that has not called Notify; the channel
\* holds one.
Signal ==
  \/ /\ main \in {"connect", "client", "listen", "register", "notify"}
     /\ End("signal") /\ UNCHANGED pool
  \/ /\ main \in {"wait", "graceful", "shutdown", "return"} /\ ~ stop
     /\ stop' = TRUE
     /\ UNCHANGED <<main, ended, pool, lis, grpcServer, httpServer, requests>>

\* SIGKILL, a crash, a node that is lost.
Kill == main # "ended" /\ End("killed") /\ UNCHANGED pool

Serving ==
  \/ ServeGRPC \/ ServeHTTP
  \/ \E r \in Request : CloseIdle(r) \/ Run(r) \/ Refuse(r) \/ Handle(r)

\* What a client does when it likes, and if it likes.
Clients ==
  \E r \in Request : Accept(r) \/ Ask(r) \/ Read(r) \/ Take(r) \/ Receive(r) \/ Respond(r)

Next == Main \/ Serving \/ BreakGRPC \/ BreakHTTP \/ Signal \/ Kill \/ Clients

\* The scheduler runs main and the goroutines, PostgreSQL and the API server answer.
\* Nothing is assumed of clients, who may stop sending or reading at any time: there is no
\* ReadTimeout and no WriteTimeout.  A stream ends when its client ends it.
Fairness ==
  /\ WF_vars(Main)
  /\ WF_vars(ServeGRPC)
  /\ WF_vars(ServeHTTP)
  /\ \A r \in ViaHTTP : WF_vars(Run(r) \/ Refuse(r)) /\ WF_vars(CloseIdle(r))
  /\ \A r \in Request \ Stream : WF_vars(Handle(r))

Spec == Init /\ [][Next]_vars

FairSpec == Spec /\ Fairness
=============================================================================
