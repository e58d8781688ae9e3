---------------------------- MODULE ResourceCatalog ----------------------------
(***************************************************************************)
(* What the API promises about builders and templates, whatever happens at *)
(* the same time: each call that changes one does so in a single step, in  *)
(* which a change of the spec leaves the time of last use as it is and a   *)
(* call to wake leaves the spec as it is.                                  *)
(***************************************************************************)
EXTENDS Naturals

CONSTANTS Kind, Name, CRSpec, Nothing

VARIABLES
  catalog, \* the builder or template of a kind and name
  clock

Key == [kind : Kind, name : Name]

Entry == [spec : CRSpec, lastUsed : Nat]

CatalogInit ==
  /\ catalog = [key \in Key |-> Nothing]
  /\ clock = 1

Present(key) == catalog[key] # Nothing

Add(key, spec) ==
  /\ ~ Present(key)
  /\ catalog' = [catalog EXCEPT ![key] = [spec |-> spec, lastUsed |-> 0]]

Respecify(key, spec) ==
  /\ Present(key)
  /\ catalog' = [catalog EXCEPT ![key].spec = spec]

Wake(key, time) ==
  /\ key.kind = "builder"
  /\ Present(key)
  /\ catalog' = [catalog EXCEPT ![key].lastUsed = time]

Remove(key) ==
  /\ Present(key)
  /\ catalog' = [catalog EXCEPT ![key] = Nothing]

Advance == clock' = clock + 1 /\ UNCHANGED catalog

CatalogNext ==
  \/ Advance
  \/ /\ UNCHANGED clock
     /\ \E key \in Key :
          \/ Remove(key)
          \/ \E spec \in CRSpec : Add(key, spec) \/ Respecify(key, spec)
          \/ \E time \in 1 .. clock : Wake(key, time)

CatalogSpec == CatalogInit /\ [][CatalogNext]_<<catalog, clock>>

-----------------------------------------------------------------------------
(* What it means *)

\* The spec and the time of last use of a builder never change together.
ChangesApart ==
  \A key \in Key :
    Present(key) /\ catalog'[key] # Nothing =>
      \/ catalog'[key].spec = catalog[key].spec
      \/ catalog'[key].lastUsed = catalog[key].lastUsed

EntriesChangeApart == [][ChangesApart]_<<catalog, clock>>

\* Nothing was last used in the future, and no template at all.
UsedInThePast ==
  \A key \in Key : Present(key) =>
    /\ catalog[key].lastUsed \in 0 .. clock
    /\ key.kind # "builder" => catalog[key].lastUsed = 0
=============================================================================
