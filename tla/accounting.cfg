\* One region through every lifecycle call, with evidence that shrinks and
\* grows it, and two reservations of one or two bytes.
CONSTANTS
  Providers = {1}
  Regions = {1}
  Pools = {}
  Policies = {}
  Consumers = {1}
  Domains = {}
  Workers = {}
  Generations = {1}
  Boots = {}
  Epochs = {1}
  MaxReservations = 2
  MaxWord = 3
  ProviderDescriptors <- MCOneProvider
  RegionDescriptors <- MCOneRegion
  PoolDescriptors <- MCPools
  PolicyDescriptors <- MCPolicies
  Evidences <- MCShrinkingEvidence
  Attachments = {}
  Requests <- MCRequests
  Authorities <- MCAuthorities
SPECIFICATION Spec
INVARIANT TypeOK
INVARIANT LedgerClosed
INVARIANT AuditAccounting
INVARIANT BulkFenceIsTheLoop
INVARIANT DrainLoopReleasesAll
PROPERTY UnavailableUntilRecovered
PROPERTY CommittedBytesAccounted
PROPERTY PromisesKept
\* Everything may end up retired at its last generation: the fabric may stop.
CHECK_DEADLOCK FALSE
