----------------------------- MODULE Lifecycle -----------------------------
(***************************************************************************)
(* The guard tables of src/src/fabric.cpp and the enumerations of           *)
(* include/memory_expansion_fabric/enums.hpp they range over. A table maps  *)
(* each state to the set of states it may be left for; a state is never     *)
(* left for itself.                                                         *)
(***************************************************************************)

\* enum class Lifecycle: the life of a provider.
ProviderStates ==
  {"DISCOVERED", "REGISTERED", "PROBING", "ONLINE", "DEGRADED", "DRAINING",
   "OFFLINE", "REVALIDATION_REQUIRED", "FAILED", "RETIRED"}

\* enum class RegionLifecycle.
RegionStates ==
  {"DECLARED", "ONLINE", "DEGRADED", "DRAINING", "UNAVAILABLE",
   "REVALIDATION_REQUIRED", "RETIRED"}

\* enum class ReservationState.
ReservationStates ==
  {"REQUESTED", "EVALUATED", "RESERVED", "COMMITTED", "ACTIVE", "RELEASED",
   "REJECTED", "EXPIRED", "FENCED", "REVALIDATION_REQUIRED", "CANCELLED"}

ProviderSuccessors ==
  [DISCOVERED |-> {"REGISTERED", "RETIRED"},
   REGISTERED |-> {"PROBING", "ONLINE", "OFFLINE", "RETIRED",
                   "REVALIDATION_REQUIRED"},
   PROBING    |-> {"ONLINE", "DEGRADED", "OFFLINE", "FAILED",
                   "REVALIDATION_REQUIRED", "RETIRED"},
   ONLINE     |-> {"DEGRADED", "DRAINING", "OFFLINE", "REVALIDATION_REQUIRED",
                   "RETIRED", "FAILED"},
   DEGRADED   |-> {"ONLINE", "DRAINING", "OFFLINE", "REVALIDATION_REQUIRED",
                   "RETIRED", "FAILED"},
   DRAINING   |-> {"OFFLINE", "FAILED", "RETIRED"},
   OFFLINE    |-> {"REVALIDATION_REQUIRED", "RETIRED", "ONLINE", "REGISTERED"},
   REVALIDATION_REQUIRED |-> {"ONLINE", "OFFLINE", "RETIRED", "PROBING"},
   FAILED     |-> {"OFFLINE", "RETIRED", "REVALIDATION_REQUIRED", "PROBING"},
   RETIRED    |-> {}]

RegionSuccessors ==
  [DECLARED    |-> {"ONLINE", "DEGRADED", "UNAVAILABLE",
                    "REVALIDATION_REQUIRED", "RETIRED"},
   ONLINE      |-> {"DEGRADED", "DRAINING", "UNAVAILABLE",
                    "REVALIDATION_REQUIRED", "RETIRED"},
   DEGRADED    |-> {"ONLINE", "DRAINING", "UNAVAILABLE",
                    "REVALIDATION_REQUIRED", "RETIRED"},
   DRAINING    |-> {"UNAVAILABLE", "REVALIDATION_REQUIRED", "RETIRED"},
   UNAVAILABLE |-> {"ONLINE", "REVALIDATION_REQUIRED", "RETIRED"},
   REVALIDATION_REQUIRED |-> {"ONLINE", "UNAVAILABLE", "DECLARED", "RETIRED"},
   RETIRED     |-> {}]

ReservationSuccessors ==
  [REQUESTED |-> {"EVALUATED", "REJECTED", "CANCELLED", "EXPIRED",
                  "REVALIDATION_REQUIRED", "RESERVED"},
   EVALUATED |-> {"RESERVED", "REJECTED", "CANCELLED",
                  "REVALIDATION_REQUIRED", "EXPIRED"},
   RESERVED  |-> {"COMMITTED", "RELEASED", "FENCED", "REVALIDATION_REQUIRED",
                  "EXPIRED", "CANCELLED"},
   COMMITTED |-> {"ACTIVE", "RELEASED", "FENCED", "REVALIDATION_REQUIRED"},
   ACTIVE    |-> {"RELEASED", "FENCED", "REVALIDATION_REQUIRED"},
   RELEASED  |-> {}, REJECTED |-> {}, EXPIRED |-> {}, FENCED |-> {},
   CANCELLED |-> {},
   REVALIDATION_REQUIRED |-> {"RESERVED", "COMMITTED", "RELEASED", "FENCED",
                              "CANCELLED"}]

providerLifecycleAllowed(from, to) == to \in ProviderSuccessors[from]
regionLifecycleAllowed(from, to)   == to \in RegionSuccessors[from]
reservationStateAllowed(from, to)  == to \in ReservationSuccessors[from]
=============================================================================
