--------------------------- MODULE MCCoordinator ---------------------------
(***************************************************************************)
(* The instances of module Coordinator.                                     *)
(***************************************************************************)
EXTENDS MCFabric, Coordinator

MCSeedProvider == ProviderOf(1, 1, Reachable)
MCSeedRegion   == RegionOf(1, 1, 1)

CONSTANT Controller    \* the client that asks for processes

ProcessRequests ==
  {[type |-> "SPAWN_WORKER", worker |-> w, boot |-> b] : w \in Workers, b \in Boots}
    \cup {[type |-> "TERMINATE_WORKER", worker |-> w] : w \in Workers}

\* A SELECT for no bytes is refused.
MemoryRequests ==
  {[type |-> "RESERVE", request |-> q] : q \in Requests}
    \cup {[type |-> "SELECT", request |-> [q EXCEPT !.requiredBytes = n]] :
            q \in Requests, n \in {0, 1}}
    \cup {[type |-> t, reservation |-> i] : t \in {"COMMIT", "RELEASE"},
                                            i \in ReservationIds}
    \cup {[type |-> t] : t \in {"INSPECT", "AUDIT", "SAVE", "UNREADABLE"}}

MCClientRequests ==
  [c \in Clients |-> IF c = Controller THEN ProcessRequests ELSE MemoryRequests]
=============================================================================
