------------------------------ MODULE MCFabric ------------------------------
(***************************************************************************)
(* The instances TLC checks. A cfg picks ids, bounds and, from the sets     *)
(* below, what callers may pass. A descriptor or message of every epoch and *)
(* generation is offered in every state, so that old ones arrive late.      *)
(***************************************************************************)
EXTENDS FenceLoop

CapabilityKeys ==
  {"CPU_ACCESSIBLE", "ACCELERATOR_ACCESSIBLE", "DIRECT_ACCESS",
   "STAGING_REQUIRED", "PERSISTENT", "VOLATILE", "BYTE_ADDRESSABLE",
   "BLOCK_ORIENTED"}
Unstated     == [k \in CapabilityKeys |-> "UNKNOWN"]
Reachable    == [Unstated EXCEPT !["ACCELERATOR_ACCESSIBLE"] = "SUPPORTED",
                                 !["PERSISTENT"] = "SUPPORTED"]
Contradictory == [Reachable EXCEPT !["VOLATILE"] = "SUPPORTED"]

RegionBytes == 2     \* capacity of a region in these instances

ProviderOf(p, g, caps) ==
  [id |-> p, generation |-> g, totalCapacityBytes |-> RegionBytes,
   alignmentBytes |-> 1, granularityBytes |-> 1, capabilities |-> caps,
   persistence |-> "VOLATILE", kind |-> "CXL_CLASS", failureDomain |-> p]
RegionOf(r, g, p) ==
  [id |-> r, generation |-> g, provider |-> p,
   totalCapacityBytes |-> RegionBytes, alignmentBytes |-> 1,
   granularityBytes |-> 1, staticCapabilities |-> Unstated]

\* One description per generation; the contradictory one is always refused.
MCProviders ==
  {ProviderOf(p, g, caps) : p \in Providers, g \in Generations,
                            caps \in {Reachable, Contradictory}}

\* Every region may be declared under every provider.
MCRegions ==
  {RegionOf(r, g, p) : r \in Regions, g \in Generations, p \in Providers}

\* Only the first generation of each: what is replaced is something else.
MCOneProvider == {ProviderOf(p, 1, Reachable) : p \in Providers}
MCOneRegion   == {RegionOf(r, 1, p) : r \in Regions, p \in Providers}

MCPools ==
  {[id |-> p, generation |-> g, members |-> <<>>] : p \in Pools, g \in Generations}
MCPolicies ==
  {[id |-> p, generation |-> g, allowDegraded |-> g = 1] :
     p \in Policies, g \in Generations}

\* Evidence about region r from provider p, as of generation rg and epoch e.
EvidenceOf(r, rg, p, pg, e, w, b, gen, health, online) ==
  [generation |-> gen, sourceProvider |-> p, sourceProviderGeneration |-> pg,
   region |-> r, regionGeneration |-> rg, worker |-> w, boot |-> b, epoch |-> e,
   health |-> health, reachable |-> TRUE, onlineCapacityBytes |-> online,
   latencyNs |-> 1, bandwidthBytesPerSec |-> 1, locality |-> "LOCAL"]

Healths == {"HEALTHY", "DEGRADED", "FAILED"}

\* Operator evidence, of one evidence generation, with the region fully online.
MCEvidence ==
  {EvidenceOf(r, rg, p, pg, e, Null, Null, 1, h, RegionBytes) :
     r \in Regions, rg \in Generations, p \in Providers, pg \in Generations,
     e \in Epochs, h \in Healths}

\* The same, also with half of the region online.
MCShrinkingEvidence ==
  {EvidenceOf(r, rg, p, pg, e, Null, Null, 1, h, on) :
     r \in Regions, rg \in Generations, p \in Providers, pg \in Generations,
     e \in Epochs, h \in Healths, on \in {1, RegionBytes}}

\* Operator evidence on the first generations, healthy or degraded.
MCPlainEvidence ==
  {EvidenceOf(r, 1, p, 1, e, Null, Null, 1, h, RegionBytes) :
     r \in Regions, p \in Providers, e \in Epochs, h \in {"HEALTHY", "DEGRADED"}}

\* Healthy evidence of workers and of the operator, in two evidence generations.
MCWorkerEvidence ==
  {EvidenceOf(r, rg, p, pg, e, w, b, gen, "HEALTHY", RegionBytes) :
     r \in Regions, rg \in Generations, p \in Providers, pg \in Generations,
     e \in Epochs, w \in Workers, b \in Boots, gen \in {1, 2}}

\* Evidence that differs in what the ranking weighs: near and fast, or, of the
\* first region, far and degraded with an unknown latency and bandwidth.
MCRankedEvidence ==
  {EvidenceOf(r, 1, p, 1, e, Null, Null, 1, "HEALTHY", RegionBytes) :
     r \in Regions, p \in Providers, e \in Epochs}
  \cup
  {[EvidenceOf(1, 1, p, 1, e, Null, Null, 1, "DEGRADED", RegionBytes)
    EXCEPT !.latencyNs = 0, !.bandwidthBytesPerSec = 0, !.locality = "REMOTE"] :
     p \in Providers, e \in Epochs}

\* Consumer 1 reaches the first region through a staging attachment.
MCAttachments ==
  {[id |-> 1, generation |-> 1, region |-> 1, regionGeneration |-> 1,
    consumer |-> 1, access |-> "STAGED", epoch |-> e] : e \in Epochs}

RequestOf(c, bytes, pool, policy, degraded) ==
  [consumer |-> c, consumerGeneration |-> 1, requiredBytes |-> bytes,
   alignmentBytes |-> 1, cpuAccessible |-> FALSE, acceleratorAccessible |-> TRUE,
   directAccessRequired |-> FALSE, stagingAcceptable |-> TRUE,
   allowStaging |-> TRUE, persistent |-> FALSE, maxLatencyNs |-> 0,
   minBandwidth |-> 0, localityPreference |-> "UNKNOWN", allowedKinds |-> {},
   forbiddenKinds |-> {}, forbiddenFailureDomain |-> Null,
   allowDegraded |-> degraded, allowLocalFallback |-> FALSE,
   expansionRequired |-> TRUE, policy |-> policy, preferredPool |-> pool,
   reserveHeadroomFactor |-> 0]

\* One byte, or as much as a region has.
MCRequests ==
  {RequestOf(c, n, Null, Null, TRUE) : c \in Consumers, n \in {1, RegionBytes}}
MCOneByte ==
  {RequestOf(c, 1, Null, Null, FALSE) : c \in Consumers}
MCBoundRequests ==
  {RequestOf(c, 1, pl, po, FALSE) : c \in Consumers, pl \in Pools \cup {Null},
                                    po \in Policies \cup {Null}}

\* A plain request, one with a limit on latency, one on bandwidth; with no
\* margin, with one that turns the headroom round, and with half as much again.
MCRankedRequests ==
  {RequestOf(1, 1, Null, Null, FALSE),
   [RequestOf(1, 1, Null, Null, TRUE) EXCEPT !.maxLatencyNs = 1,
                                             !.reserveHeadroomFactor = -150],
   [RequestOf(1, 1, Null, Null, TRUE) EXCEPT !.minBandwidth = 1,
                                             !.reserveHeadroomFactor = 50]}

\* Operators of every epoch, and every boot of every worker.
MCAuthorities ==
  [epoch : Epochs, worker : {Null}, boot : {Null}]
    \cup [epoch : Epochs, worker : Workers, boot : Boots]
=============================================================================
