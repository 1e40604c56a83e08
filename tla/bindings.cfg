\* Pools, policies, consumers and domains are registered and replaced around a
\* reservation that is bound to them.
CONSTANTS
  Providers = {1}
  Regions = {1}
  Pools = {1}
  Policies = {1}
  Consumers = {1}
  Domains = {1}
  Workers = {}
  Generations = {1, 2}
  Boots = {}
  Epochs = {1}
  MaxReservations = 1
  MaxWord = 3
  ProviderDescriptors <- MCOneProvider
  RegionDescriptors <- MCOneRegion
  PoolDescriptors <- MCPools
  PolicyDescriptors <- MCPolicies
  Evidences <- MCPlainEvidence
  Attachments = {}
  Requests <- MCBoundRequests
  Authorities <- MCAuthorities
SPECIFICATION Spec
INVARIANT LiveReservationCurrent
\* Everything may end up retired at its last generation: the fabric may stop.
CHECK_DEADLOCK FALSE
