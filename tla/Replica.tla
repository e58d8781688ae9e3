------------------------------- MODULE Replica -------------------------------
(***************************************************************************)
(* What a replica of the server promises: to its clients, that a request   *)
(* is done at most once, that a refusal means it was not done at all, and  *)
(* that who waits at the gateway is answered; to who stops it, that each   *)
(* thing it waits for was there when it began to wait.                     *)
(*                                                                         *)
(* Only a replica that dies forgets somebody.                              *)
(***************************************************************************)
CONSTANT Client

VARIABLES
  phase,  \* of the replica
  fate,   \* what became of a request
  come,   \* requests whose clients are connected to the gateway
  held    \* those that wait there

vars == <<phase, fate, come, held>>

Alive == {"starting", "open", "draining", "closing"}

Nobody(what) == \A r \in Client : fate[r] # what

RInit ==
  /\ phase = "starting"
  /\ fate = [r \in Client |-> "none"]
  /\ come = {}
  /\ held = {}

Becomes(r, old, new) ==
  /\ fate[r] = old
  /\ fate' = [fate EXCEPT ![r] = new]
  /\ UNCHANGED <<phase, come, held>>

\* A client comes to the gateway, asks for something, or is sent away.
Come(r) ==
  /\ phase \in Alive \ {"closing"}
  /\ come' = come \cup {r}
  /\ UNCHANGED <<phase, fate, held>>

Hold(r) ==
  /\ phase \in Alive
  /\ r \in come \ held /\ fate[r] = "none"
  /\ held' = held \cup {r}
  /\ UNCHANGED <<phase, fate, come>>

SendAway(r) ==
  /\ phase = "closing"
  /\ r \in come \ held
  /\ come' = come \ {r}
  /\ UNCHANGED <<phase, fate, held>>

\* It is begun, in an open replica only, and done.
Begin(r) == phase = "open" /\ Becomes(r, "none", "working")
Serve(r) == phase \in Alive /\ Becomes(r, "working", "served")
Refuse(r) == phase \in Alive /\ Becomes(r, "none", "refused")

\* What waits at the gateway is let go when it has its answer.
Release(r) ==
  /\ phase \in Alive
  /\ r \in held /\ fate[r] \in {"served", "refused"}
  /\ come' = come \ {r}
  /\ held' = held \ {r}
  /\ UNCHANGED <<phase, fate>>

Turn(from, to) == phase \in from /\ phase' = to /\ UNCHANGED <<fate, come, held>>

Open == Turn({"starting"}, "open")

Drain == Turn({"starting", "open"}, "draining")

Close == Nobody("working") /\ Turn({"draining"}, "closing")

Leave == Nobody("working") /\ come = {} /\ Turn({"closing"}, "left")

Die ==
  /\ phase \in Alive
  /\ phase' = "dead"
  /\ fate' = [r \in Client |-> IF fate[r] = "working" THEN "lost" ELSE fate[r]]
  /\ come' = {} /\ held' = {}

RNext ==
  \/ \E r \in Client :
       \/ Come(r) \/ Hold(r) \/ SendAway(r)
       \/ Begin(r) \/ Serve(r) \/ Refuse(r) \/ Release(r)
  \/ Open \/ Drain \/ Close \/ Leave \/ Die

ReplicaSpec == RInit /\ [][RNext]_vars

-----------------------------------------------------------------------------
(* What it means *)

\* A request that was served, refused or lost stays so: nothing is done twice, and nothing
\* is done after it was refused.
FatesAreFinal ==
  \A r \in Client : fate[r] \in {"served", "refused", "lost"} => fate'[r] = fate[r]

\* What is waited for was there when the wait began.
WaitsShrink ==
  /\ phase = "draining" /\ phase' = "draining" =>
       \A r \in Client : fate'[r] = "working" => fate[r] = "working"
  /\ phase = "closing" /\ phase' = "closing" =>
       come' \subseteq come /\ held' \subseteq held \cup come

PromisesKept == [][FatesAreFinal /\ WaitsShrink]_vars

\* A replica that left forgot nobody.
NobodyForgotten == phase # "dead" => Nobody("lost")
=============================================================================
