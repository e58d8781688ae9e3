----------------------------- MODULE MCLifecycle -----------------------------
(***************************************************************************)
(* An instance of Lifecycle for TLC.                                       *)
(***************************************************************************)
EXTENDS LifecycleInvariants

CONSTANTS h1, h2, g1, s1
=============================================================================
