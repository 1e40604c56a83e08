\* New epochs, and new generations of the provider and the region, around one
\* reservation.
CONSTANTS
  Providers = {1}
  Regions = {1}
  Pools = {}
  Policies = {}
  Consumers = {1}
  Domains = {}
  Workers = {}
  Generations = {1, 2}
  Boots = {}
  Epochs = {1, 2}
  MaxReservations = 1
  MaxWord = 3
  ProviderDescriptors <- MCProviders
  RegionDescriptors <- MCRegions
  PoolDescriptors <- MCPools
  PolicyDescriptors <- MCPolicies
  Evidences <- MCEvidence
  Attachments = {}
  Requests <- MCOneByte
  Authorities <- MCAuthorities
SPECIFICATION Spec
INVARIANT LiveReservationCurrent
INVARIANT CurrentEvidenceIsFresh
PROPERTY ReservationTransitionsAllowed
\* Everything may end up retired at its last generation: the fabric may stop.
CHECK_DEADLOCK FALSE
