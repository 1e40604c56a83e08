\* A client that spawns and kills a worker, one that reserves memory, and what
\* both of them and the coordinator must get done.
CONSTANTS
  Providers = {1}
  Regions = {1}
  Pools = {}
  Policies = {}
  Consumers = {1}
  Domains = {1}
  Workers = {1}
  Generations = {1}
  Boots = {1}
  Epochs = {1}
  MaxReservations = 1
  MaxWord = 3
  ProviderDescriptors <- MCOneProvider
  RegionDescriptors <- MCOneRegion
  PoolDescriptors <- MCPools
  PolicyDescriptors <- MCPolicies
  Evidences <- MCWorkerEvidence
  Attachments = {}
  Requests <- MCOneByte
  Authorities <- MCAuthorities
  Clients = {c1, c2}
  Controller = c1
  ClientRequests <- MCClientRequests
  Handles = {1}
  MaxEntries = 2
  MaxSpawns = 1
  SeedProvider <- MCSeedProvider
  SeedRegion <- MCSeedRegion
SPECIFICATION FairSpec
PROPERTY RequestAnswered
PROPERTY DeathDetected
\* Clients may close, or wait for an answer that is not sent.
CHECK_DEADLOCK FALSE
