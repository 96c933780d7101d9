------------------------- MODULE MCCapabilitySpace --------------------------
(***************************************************************************)
(* A thread of core and two threads of a component.                        *)
(***************************************************************************)
EXTENDS CapabilitySpace, TLC

CONSTANTS CorePd, AppPd, CoreThread, App1, App2

MCPdOf == CoreThread :> CorePd @@ App1 :> AppPd @@ App2 :> AppPd

\* Threads of one PD, identities, objects and ids are interchangeable
Symmetry ==
  Permutations({App1, App2}) \cup Permutations(Identity)
    \cup Permutations(Object) \cup Permutations(Capid)
=============================================================================
