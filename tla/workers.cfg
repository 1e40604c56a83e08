\* One worker with two boots, in two epochs, publishes, reserves and dies.
CONSTANTS
  Providers = {1}
  Regions = {1}
  Pools = {}
  Policies = {}
  Consumers = {1}
  Domains = {}
  Workers = {1}
  Generations = {1}
  Boots = {1, 2}
  Epochs = {1, 2}
  MaxReservations = 1
  MaxWord = 3
  ProviderDescriptors <- MCOneProvider
  RegionDescriptors <- MCOneRegion
  PoolDescriptors <- MCPools
  PolicyDescriptors <- MCPolicies
  Evidences <- MCWorkerEvidence
  Attachments = {}
  Requests <- MCOneByte
  Authorities <- MCAuthorities
SPECIFICATION Spec
INVARIANT NoReservationOfDeadBoot
PROPERTY PromisesOnlyInService
\* Everything may end up retired at its last generation: the fabric may stop.
CHECK_DEADLOCK FALSE
