\* A second spawn of a worker, while the monitor of the first has not reported.
CONSTANTS
  Providers = {1}
  Regions = {1}
  Pools = {}
  Policies = {}
  Consumers = {1}
  Domains = {1}
  Workers = {1}
  Generations = {1}
  Boots = {1, 2}
  Epochs = {1}
  MaxReservations = 1
  MaxWord = 3
  ProviderDescriptors <- MCOneProvider
  RegionDescriptors <- MCOneRegion
  PoolDescriptors <- MCPools
  PolicyDescriptors <- MCPolicies
  Evidences <- MCWorkerEvidence
  Attachments = {}
  Requests <- MCOneByte
  Authorities <- MCAuthorities
  Clients = {c1}
  Controller = c1
  ClientRequests <- MCClientRequests
  Handles = {1, 2}
  MaxEntries = 2
  MaxSpawns = 2
  SeedProvider <- MCSeedProvider
  SeedRegion <- MCSeedRegion
SPECIFICATION SystemSpec
PROPERTY DeathIsProven
\* Clients may close, or wait for an answer that is not sent.
CHECK_DEADLOCK FALSE
