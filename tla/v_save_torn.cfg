\* Two threads save at once and a write of one fails; an open file cannot be renamed.
CONSTANTS
  Providers = {1}
  Regions = {1}
  Pools = {}
  Policies = {}
  Consumers = {1}
  Domains = {}
  Workers = {}
  Generations = {1}
  Boots = {}
  Epochs = {1, 2}
  MaxReservations = 1
  MaxWord = 3
  ProviderDescriptors <- MCOneProvider
  RegionDescriptors <- MCOneRegion
  PoolDescriptors <- MCPools
  PolicyDescriptors <- MCPolicies
  Evidences <- MCRestartEvidence
  Attachments = {}
  Requests <- MCOneByte
  Authorities <- MCOperators
  Savers = {s1, s2}
  MaxCount = 1
  Surroundings <- MCFullDisk
SYMMETRY SaverSymmetry
SPECIFICATION PersistentSpec
INVARIANT SaveIsAtomic
\* A file load refuses, or the last epoch, stops the coordinator for good.
CHECK_DEADLOCK FALSE
