---------------------------- MODULE ControlPlane ----------------------------
(***************************************************************************)
(* The control plane of the Docker mesh (src/docker/control-plane/): a     *)
(* registry of sidecar addresses per service, kept in memory and guarded   *)
(* by one mutex, and a round-robin index per service.                      *)
(*                                                                         *)
(* registry[s] = << >> stands for a name that is not a key of the map: the *)
(* handlers only ever append.  wedged is the mutex left locked by          *)
(* discoverHandler, whose branch for an unknown name returns between Lock  *)
(* and Unlock; from then on every handler that wants the mutex blocks.     *)
(***************************************************************************)
EXTENDS Naturals, Sequences

CONSTANT
  Services     \* service names a manifest or a request can carry

VARIABLES
  registry,    \* plane.Mesh.registry
  idx,         \* plane.Mesh.idx
  wedged       \* plane.Mesh.mu is held by a handler that has returned

planeVars == <<registry, idx, wedged>>

\* A control plane that has just started.
EmptyPlane ==
  /\ registry = [s \in Services |-> << >>]
  /\ idx = [s \in Services |-> 0]
  /\ wedged = FALSE

\* The same as a step: the container is created anew, its memory is empty.
FreshPlane ==
  /\ registry' = [s \in Services |-> << >>]
  /\ idx' = [s \in Services |-> 0]
  /\ wedged' = FALSE

RegisterName(s, a) ==
  /\ ~wedged
  /\ registry' = [registry EXCEPT ![s] = Append(@, s)]
  /\ UNCHANGED <<idx, wedged>>
\* registerHandler: appends, whether or not the address is already there.
Register(s, a) ==
  /\ ~wedged
  /\ registry' = [registry EXCEPT ![s] = Append(@, a)]
  /\ UNCHANGED <<idx, wedged>>

RotatedLate(i, len) == IF i = len THEN 0 ELSE i + 1
\* The index after one pick: it wraps when it reaches the length.
Rotated(i, len) == IF i + 1 = len THEN 0 ELSE i + 1

Picked(s) == registry[s][idx[s] + 1]

\* The pick of discoverHandler and of getAddress, between Lock and Unlock.
Pick(s) ==
  /\ ~wedged
  /\ registry[s] # << >>
  /\ idx' = [idx EXCEPT ![s] = Rotated(@, Len(registry[s]))]
  /\ UNCHANGED <<registry, wedged>>

\* discoverHandler for a name nobody registered: 404, the mutex stays locked.
DiscoverUnknown(s) ==
  /\ ~wedged
  /\ registry[s] = << >>
  /\ wedged' = TRUE
  /\ UNCHANGED <<registry, idx>>

(***************************************************************************)
(* The index of a service stays inside its list, whatever registrations    *)
(* arrive between two picks.  Outside of it the pick in discoverHandler    *)
(* would panic, and panic with the mutex held.                             *)
(***************************************************************************)
RotationInRange ==
  \A s \in Services : registry[s] # << >> => idx[s] < Len(registry[s])
=============================================================================
