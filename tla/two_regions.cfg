\* Two regions of one provider, with evidence and attachments that differ, drain,
\* fail, retire and are chosen from independently.
CONSTANTS
  Providers = {1}
  Regions = {1, 2}
  Pools = {}
  Policies = {}
  Consumers = {1}
  Domains = {}
  Workers = {}
  Generations = {1}
  Boots = {}
  Epochs = {1}
  MaxReservations = 1
  MaxWord = 3
  ProviderDescriptors <- MCOneProvider
  RegionDescriptors <- MCOneRegion
  PoolDescriptors <- MCPools
  PolicyDescriptors <- MCPolicies
  Evidences <- MCRankedEvidence
  Attachments <- MCAttachments
  Requests <- MCRankedRequests
  Authorities <- MCAuthorities
SPECIFICATION Spec
INVARIANT SettledHoldsNothing
INVARIANT RankingIsDeterministic
INVARIANT EligibleServes
PROPERTY ProviderTransitionsAllowed
\* Everything may end up retired at its last generation: the fabric may stop.
CHECK_DEADLOCK FALSE
