\* Two threads save a fabric that crashes anywhere and is restarted: one at a time
\* and at once, with and without writes that fail and open files that are renamed.
CONSTANTS
  Providers = {1}
  Regions = {1}
  Pools = {1}
  Policies = {}
  Consumers = {}
  Domains = {}
  Workers = {}
  Generations = {1}
  Boots = {}
  Epochs = {1, 2}
  MaxReservations = 0
  MaxWord = 3
  ProviderDescriptors <- MCOneProvider
  RegionDescriptors <- MCOneRegion
  PoolDescriptors <- MCPools
  PolicyDescriptors <- MCPolicies
  Evidences <- MCRestartEvidence
  Attachments = {}
  Requests <- MCOneByte
  Authorities <- MCOperators
  Savers = {s1, s2}
  MaxCount = 1
  Surroundings <- MCSurroundings
SYMMETRY SaverSymmetry
SPECIFICATION PersistentSpec
INVARIANT FileNeverTorn
INVARIANT ServesOnlyOnEvidence
PROPERTY SaveIsSnapshot
\* A file load refuses, or the last epoch, stops the coordinator for good.
CHECK_DEADLOCK FALSE
