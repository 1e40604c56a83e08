----------------------------- MODULE Selection -----------------------------
(***************************************************************************)
(* Eligibility and ranking, src/src/selection.cpp, over the fabric's state. *)
(* A request is a ConsumerRequirements record q; reserveHeadroomFactor is a *)
(* whole percentage. Scores are exact: the doubles of the code are          *)
(* multiplied by their common denominator.                                  *)
(***************************************************************************)
EXTENDS FabricState, FiniteSetsExt

-----------------------------------------------------------------------------
\* A provider's statement decides unless it is UNKNOWN; then the region's.
capability(r, key) ==
  LET stated == providers[BackingProvider(r)].descriptor.capabilities[key]
  IN  IF stated = "UNKNOWN"
      THEN regions[r].descriptor.staticCapabilities[key] ELSE stated

\* The request, or the registered policy it names, tolerates degradation.
DegradedAllowed(q) ==
  q.allowDegraded \/ (q.policy # Null /\ policies[q.policy].allowDegraded)

RequiredCapabilities(q) ==
  <<[required |-> q.cpuAccessible,         key |-> "CPU_ACCESSIBLE"],
    [required |-> q.acceleratorAccessible, key |-> "ACCELERATOR_ACCESSIBLE"],
    [required |-> q.directAccessRequired,  key |-> "DIRECT_ACCESS"]>>

LocalityMismatch(wanted, l) ==
  \/ wanted = "LOCAL"  /\ l # "LOCAL"
  \/ wanted = "REMOTE" /\ l \in {"LOCAL", "UNKNOWN"}
  \/ wanted = "FABRIC" /\ l # "FABRIC"

\* The lifecycle and evidence gates, in the code's order: the reasons for
\* which region r may serve nobody, or not this request, now.
StateGates(q, r) ==
  LET p  == providers[BackingProvider(r)]
      lc == regions[r].lifecycle
      e  == evidence[r]
  IN <<
  <<p.lifecycle \in {"RETIRED", "FAILED"},               "OFFLINE">>,
  <<lc = "RETIRED",                                      "OFFLINE">>,
  <<lc = "DRAINING",                                     "DEGRADED_NOT_ALLOWED">>,
  <<lc = "DEGRADED" /\ ~DegradedAllowed(q),              "DEGRADED_NOT_ALLOWED">>,
  <<lc \notin {"ONLINE", "DEGRADED"},                    "REVALIDATION_REQUIRED">>,
  <<~e.has,                                              "STALE_EVIDENCE">>,
  <<e.status # "CURRENT",                                "STALE_EVIDENCE">>,
  <<e.latest.health = "FAILED",                          "REVALIDATION_REQUIRED">>,
  <<e.latest.health = "DEGRADED" /\ ~DegradedAllowed(q), "DEGRADED_NOT_ALLOWED">>,
  <<~e.latest.reachable,                                 "UNREACHABLE">>,
  <<ledger[r]["free"] < q.requiredBytes,                 "INSUFFICIENT_CAPACITY">> >>

\* Required capabilities: UNSUPPORTED and anything not SUPPORTED both reject.
CapabilityGates(q, r) ==
  LET need(k)   == RequiredCapabilities(q)[k].required
      status(k) == capability(r, RequiredCapabilities(q)[k].key)
      gate(k)   == <<need(k) /\ status(k) # "SUPPORTED",
                     IF status(k) = "UNSUPPORTED" THEN "CAPABILITY_UNSUPPORTED"
                                                  ELSE "CAPABILITY_UNKNOWN">>
  IN <<gate(1), gate(2), gate(3)>>

\* The remaining hard constraints of the request.
FitGates(q, r) ==
  LET d == regions[r].descriptor
      p == providers[BackingProvider(r)].descriptor
      e == evidence[r].latest
  IN <<
  <<q.persistent /\ p.persistence # "PERSISTENT",        "PERSISTENCE_REQUIRED">>,
  <<q.alignmentBytes > d.alignmentBytes,                 "INCOMPATIBLE">>,
  <<q.requiredBytes > d.granularityBytes
      /\ q.requiredBytes % d.granularityBytes # 0,       "INCOMPATIBLE">>,
  <<q.maxLatencyNs > 0
      /\ (e.latencyNs = 0 \/ e.latencyNs > q.maxLatencyNs),
                                                         "LATENCY_LIMIT_EXCEEDED">>,
  <<q.minBandwidth > 0 /\ e.bandwidthBytesPerSec < q.minBandwidth,
                                                         "BANDWIDTH_INSUFFICIENT">>,
  <<q.allowedKinds # {} /\ p.kind \notin q.allowedKinds, "INCOMPATIBLE">>,
  <<p.kind \in q.forbiddenKinds,                         "INCOMPATIBLE">>,
  <<LocalityMismatch(q.localityPreference, e.locality),  "TOO_REMOTE">>,
  <<q.forbiddenFailureDomain # Null
      /\ p.failureDomain = q.forbiddenFailureDomain,     "FAILURE_DOMAIN_CONFLICT">>,
  <<q.policy # Null /\ policies[q.policy].generation = 0, "POLICY_DENIED">> >>

Shut(gates)        == {k \in DOMAIN gates : gates[k][1]}
FirstReason(gates) == gates[Min(Shut(gates))][2]

\* Only the request's own constraints are looked at, not the region's state.
Fault_evaluateRegionEligibility_AnyState(q, r) ==
  IF ledger[r]["free"] < q.requiredBytes THEN "INSUFFICIENT_CAPACITY"
  ELSE IF Shut(CapabilityGates(q, r)) # {} THEN FirstReason(CapabilityGates(q, r))
  ELSE IF Shut(FitGates(q, r)) # {} THEN FirstReason(FitGates(q, r))
  ELSE "ELIGIBLE"

\* evaluateRegionEligibility: the reason of the first gate that is shut. The
\* backing provider of a registered region is registered: neither is erased.
evaluateRegionEligibility(q, r) ==
  IF Shut(StateGates(q, r)) # {} THEN FirstReason(StateGates(q, r))
  ELSE IF Shut(CapabilityGates(q, r)) # {} THEN FirstReason(CapabilityGates(q, r))
  ELSE IF Shut(FitGates(q, r)) # {} THEN FirstReason(FitGates(q, r))
  ELSE "ELIGIBLE"

-----------------------------------------------------------------------------
\* A preferred pool restricts the candidates to the regions that list it.
Candidates(q) ==
  {r \in KnownRegions :
     q.preferredPool # Null => q.preferredPool \in poolMemberships[r]}

EligibleRegions(q) ==
  {r \in Candidates(q) : evaluateRegionEligibility(q, r) = "ELIGIBLE"}

\* bestAccess: a DIRECT attachment usable by the consumer, else the first
\* usable one that is known, else what the provider's capabilities say.
bestAccess(r, consumer) ==
  LET usable == {k \in DOMAIN attachments[r] :
                   attachments[r][k].consumer \in {Null, consumer}}
      known  == {k \in usable : attachments[r][k].access # "UNKNOWN"}
      caps   == providers[BackingProvider(r)].descriptor.capabilities
  IN  IF \E k \in usable : attachments[r][k].access = "DIRECT" THEN "DIRECT"
      ELSE IF known # {} THEN attachments[r][Min(known)].access
      ELSE IF caps["DIRECT_ACCESS"] = "SUPPORTED" THEN "DIRECT"
      ELSE IF caps["STAGING_REQUIRED"] = "SUPPORTED" THEN "STAGED"
      ELSE "UNKNOWN"

\* The score tables of the code, times their weight and 1000.
localityScore == [LOCAL |-> 300, FABRIC |-> 210, REMOTE |-> 150, UNKNOWN |-> 90]
healthScore   == [HEALTHY |-> 50, DEGRADED |-> 30, FAILED |-> 0, UNKNOWN |-> 25]
accessScore   == [DIRECT |-> 150, STAGED |-> 90, MEDIATED |-> 60, UNKNOWN |-> 60]

\* The map of regions is finite, and what is scored has the type its struct
\* declares: counters, and members of the enumerations HealthState, Locality,
\* AccessKind.
ASSUME ScoreAssumption ==
  /\ IsFiniteSet(Regions)
  /\ \A e \in Evidences :
       /\ e.latencyNs \in Nat /\ e.bandwidthBytesPerSec \in Nat
       /\ e.locality \in DOMAIN localityScore /\ e.health \in DOMAIN healthScore
  /\ \A t \in Attachments : t.access \in DOMAIN accessScore
  /\ \A q \in Requests : q.reserveHeadroomFactor \in Int

\* What the score of r depends on besides the other candidates.
Factors(q, r) ==
  [locality |-> evidence[r].latest.locality, health |-> evidence[r].latest.health,
   latency |-> evidence[r].latest.latencyNs, free |-> ledger[r]["free"],
   bandwidth |-> evidence[r].latest.bandwidthBytesPerSec,
   access |-> bestAccess(r, q.consumer)]

\* c.score for an eligible region: latency and bandwidth are normalised by the
\* largest among the eligible regions, headroom by the bytes asked for with
\* their margin; an unknown latency (0) scores nothing. The factor of the margin
\* may be anything: at -100% the code divides by zero, which is capped to 1,
\* and below that headroom counts against a region.
Score(q, r) ==
  LET f      == Factors(q, r)
      maxLat == Max({Factors(q, s).latency : s \in EligibleRegions(q)} \cup {1})
      maxBw  == Max({Factors(q, s).bandwidth : s \in EligibleRegions(q)})
      bwUnit == IF maxBw = 0 THEN 1 ELSE maxBw
      need   == q.requiredBytes * (100 + q.reserveHeadroomFactor)
      unit   == IF need > 0 THEN need ELSE IF need < 0 THEN -need ELSE 1
      lat    == IF f.latency = 0 THEN 0 ELSE 200 * (maxLat - f.latency)
      bw     == IF maxBw = 0 THEN 200 ELSE 200 * f.bandwidth
      head   == 150 * (IF need > 0 THEN Min({f.free * 100, need})
                       ELSE IF need < 0 THEN -(f.free * 100) ELSE 1)
  IN  (localityScore[f.locality] + healthScore[f.health] + accessScore[f.access])
        * maxLat * bwUnit * unit
      + lat * bwUnit * unit + bw * maxLat * unit + head * maxLat * bwUnit

\* Ties are left to the order of the hash map.
Fault_Precedes_NoTieBreak(q, x, y) == Score(q, x) >= Score(q, y)

\* The comparator of the sort: score descending, then region id. (One region
\* is one candidate, so provider and pool ids never decide.) Equal sums of
\* different factors may differ by a rounding of the doubles, either way.
Precedes(q, x, y) ==
  \/ Score(q, x) > Score(q, y)
  \/ /\ Score(q, x) = Score(q, y)
     /\ Factors(q, x) = Factors(q, y) => x < y

\* The regions the ranking may put first: ranked[0].
TopRegions(q) ==
  {r \in EligibleRegions(q) :
     \A s \in EligibleRegions(q) \ {r} : Precedes(q, r, s)}

\* sel.outcome when region r is ranked first.
OutcomeOf(q, r) ==
  IF bestAccess(r, q.consumer) = "STAGED" THEN "STAGING_REQUIRED"
                                          ELSE "EXPANSION_SELECTED"

\* sel.outcome when no region is eligible.
FallbackOutcome(q) ==
  IF ~q.expansionRequired /\ q.allowLocalFallback THEN "LOCAL_FALLBACK_SELECTED"
  ELSE IF \E r \in Candidates(q) : evaluateRegionEligibility(q, r)
                                     \in {"REVALIDATION_REQUIRED", "STALE_EVIDENCE"}
  THEN "REVALIDATION_REQUIRED" ELSE "REJECT"

\* The outcomes select may return.
SelectionOutcomes(q) ==
  IF EligibleRegions(q) = {} THEN {FallbackOutcome(q)}
  ELSE {OutcomeOf(q, r) : r \in TopRegions(q)}
=============================================================================
