---------------------------- MODULE BindingProofs ----------------------------
(***************************************************************************)
(* What a reservation that holds bytes and evidence that counts as CURRENT  *)
(* are bound to. A reservation is live after a step only if it survives the *)
(* step, is committed or is made by it (NextLives): the first keeps all its *)
(* bindings because every call that replaces a binding fences it, the other *)
(* two check or set each of them. The invariant of the reservations rests   *)
(* on the types and the closure of the ledgers alone, that of the evidence  *)
(* on the types. Before them, the gates and the ranking of selection.cpp,   *)
(* on which reservations rest; after them, the loops that fence.            *)
(***************************************************************************)
EXTENDS FabricProofs, FenceLoop

-----------------------------------------------------------------------------
(***************************************************************************)
(* Eligibility and ranking of selection.cpp. No gate of an eligible region  *)
(* is shut. Scores are numbers, whatever the evidence, so that a finite set *)
(* of eligible regions has a first one, and only different factors leave    *)
(* two.                                                                     *)
(***************************************************************************)
\* A set of numbers that is not empty has a least one: the induction principle
\* of these proofs, in a form without an operator parameter.
LEMMA LeastNumber ==
  ASSUME NEW S \in SUBSET Nat, S # {}
  PROVE  /\ \E x \in S : \A y \in S : x <= y
         /\ Min(S) \in S /\ \A y \in S : Min(S) <= y
<1> DEFINE R == {x \in Nat \X Nat : x[1] < x[2]}
<1>1. IsWellFoundedOn(R, Nat)
  BY NatLessThanWellFounded DEF OpToRel
<1> HIDE DEF R
<1>2. PICK x \in S : \A y \in S : ~(<<y, x>> \in R)
  BY <1>1, WFMin
<1>3. \A y \in S : x <= y
  <2> SUFFICES ASSUME NEW y \in S PROVE x <= y
    OBVIOUS
  <2>1. x \in Nat /\ y \in Nat /\ <<y, x>> \in Nat \X Nat
    OBVIOUS
  <2>2. ~(<<y, x>>[1] < <<y, x>>[2])
    BY <1>2, <2>1 DEF R
  <2> QED BY <2>1, <2>2
<1> QED BY <1>3 DEF Min

\* No gate is shut for the reason ELIGIBLE.
LEMMA GatesRefuse ==
  ASSUME NEW q, NEW r, evaluateRegionEligibility(q, r) = "ELIGIBLE"
  PROVE  Shut(StateGates(q, r)) = {}
<1> SUFFICES ASSUME Shut(StateGates(q, r)) # {}
             PROVE  FirstReason(StateGates(q, r)) # "ELIGIBLE"
  BY DEF evaluateRegionEligibility
<1>1. DOMAIN StateGates(q, r) = 1..11
  BY DEF StateGates
<1>2. Shut(StateGates(q, r)) \in SUBSET (1..11)
  BY <1>1 DEF Shut
<1>3. Min(Shut(StateGates(q, r))) \in 1..11
  BY <1>2, LeastNumber
<1>4. \A k \in 1..11 : StateGates(q, r)[k][2] # "ELIGIBLE"
  BY DEF StateGates
<1> QED BY <1>3, <1>4 DEF FirstReason

\* What the lifecycle and evidence gates of evaluateRegionEligibility leave.
LEMMA EligibleInService ==
  ASSUME TypeOK, NEW q \in Requests, NEW r \in EligibleRegions(q)
  PROVE  /\ r \in KnownRegions /\ r \in Regions
         /\ regions[r].lifecycle \in {"ONLINE", "DEGRADED"}
         /\ providers[BackingProvider(r)].lifecycle # "RETIRED"
         /\ evidence[r].has /\ evidence[r].status = "CURRENT"
         /\ q.requiredBytes <= ledger[r]["free"]
<1>1. r \in KnownRegions /\ r \in Regions
  BY DEF EligibleRegions, Candidates, KnownRegions
<1>2. \A k \in 1..11 : ~StateGates(q, r)[k][1]
  <2>1. Shut(StateGates(q, r)) = {} /\ DOMAIN StateGates(q, r) = 1..11
    BY GatesRefuse DEF EligibleRegions, StateGates
  <2> QED BY <2>1 DEF Shut
<1>3. /\ ~StateGates(q, r)[1][1] /\ ~StateGates(q, r)[5][1]
      /\ ~StateGates(q, r)[6][1] /\ ~StateGates(q, r)[7][1]
      /\ ~StateGates(q, r)[11][1]
  BY <1>2
<1>4. /\ regions[r].lifecycle \in {"ONLINE", "DEGRADED"}
      /\ providers[BackingProvider(r)].lifecycle # "RETIRED"
      /\ evidence[r].has /\ evidence[r].status = "CURRENT"
      /\ ~(ledger[r]["free"] < q.requiredBytes)
  BY <1>3 DEF StateGates
<1>5. ledger[r]["free"] \in Nat /\ q.requiredBytes \in Nat
  BY <1>1, BucketNat, MessageAssumption, MaxWordAssumption
  DEF Counters, Buckets, Words
<1> QED BY <1>1, <1>4, <1>5

-----------------------------------------------------------------------------
(***************************************************************************)
(* Ranking.                                                                 *)
(***************************************************************************)
\* A number-valued function on a finite set has a largest value: a point with the
\* fewest points above it has none.
LEMMA LargestValue ==
  ASSUME NEW E, IsFiniteSet(E), E # {}, NEW f \in [E -> Int]
  PROVE  \E x \in E : \A y \in E : f[y] <= f[x]
<1> DEFINE above(x) == {y \in E : f[y] > f[x]}
           ranks    == {n \in Nat : \E x \in E : n = Cardinality(above(x))}
<1>1. \A x \in E : IsFiniteSet(above(x)) /\ Cardinality(above(x)) \in Nat
  BY FS_Subset, FS_CardinalityType
<1>2. ranks \in SUBSET Nat /\ ranks # {}
  BY <1>1
<1>3. PICK n \in ranks : \A m \in ranks : n <= m
  BY <1>2, LeastNumber
<1>4. PICK x \in E : n = Cardinality(above(x))
  BY <1>3
<1>5. SUFFICES ASSUME NEW y \in E, ~(f[y] <= f[x])
               PROVE  FALSE
  BY <1>4
<1>6. above(y) \in SUBSET above(x) /\ y \in above(x) /\ y \notin above(y)
  BY <1>4, <1>5
<1>7. Cardinality(above(y)) <= Cardinality(above(x))
      /\ Cardinality(above(y)) # Cardinality(above(x))
  <2>1. above(x) # above(y)
    BY <1>6
  <2> HIDE DEF above
  <2> QED BY <1>1, <1>4, <1>6, <2>1, FS_Subset
<1>8. Cardinality(above(y)) \in ranks /\ Cardinality(above(y)) \in Nat
      /\ Cardinality(above(x)) \in Nat
  BY <1>1, <1>4
<1>9. Cardinality(above(x)) <= Cardinality(above(y))
  BY <1>3, <1>4, <1>8
<1> HIDE DEF above
<1> QED BY <1>7, <1>8, <1>9

\* The largest of the values of such a function, or of them and 1, is a number.
LEMMA MaxNumber ==
  ASSUME NEW E, IsFiniteSet(E), E # {}, NEW f \in [E -> Int]
  PROVE  /\ Max({f[x] : x \in E}) \in Int
         /\ Max({f[x] : x \in E} \cup {1}) \in Int
<1>1. PICK x \in E : \A y \in E : f[y] <= f[x]
  BY LargestValue
<1>2. \E m \in {f[z] : z \in E} : \A y \in {f[z] : z \in E} : m >= y
  BY <1>1
<1>3. \E m \in {f[z] : z \in E} \cup {1} :
        \A y \in {f[z] : z \in E} \cup {1} : m >= y
  <2>1. CASE f[x] >= 1
    BY <1>1, <2>1
  <2>2. CASE ~(f[x] >= 1)
    BY <1>1, <2>2
  <2> QED BY <2>1, <2>2
<1>4. {f[z] : z \in E} \subseteq Int
  OBVIOUS
<1> QED BY <1>2, <1>3, <1>4 DEF Max

\* The factors of a region of the fabric are what the score tables know.
LEMMA FactorTypes ==
  ASSUME TypeOK, NEW q \in Requests, NEW r \in Regions
  PROVE  /\ Factors(q, r).locality \in DOMAIN localityScore
         /\ Factors(q, r).health \in DOMAIN healthScore
         /\ Factors(q, r).access \in DOMAIN accessScore
         /\ Factors(q, r).latency \in Nat /\ Factors(q, r).bandwidth \in Nat
         /\ Factors(q, r).free \in Nat
<1>1. evidence[r].latest \in Evidences \cup {NoRegionEvidence}
  BY DEF TypeOK, EvidenceRecords
<1>2. /\ evidence[r].latest.latencyNs \in Nat
      /\ evidence[r].latest.bandwidthBytesPerSec \in Nat
      /\ evidence[r].latest.locality \in DOMAIN localityScore
      /\ evidence[r].latest.health \in DOMAIN healthScore
  BY <1>1, ScoreAssumption DEF NoRegionEvidence, localityScore, healthScore
<1>3. ledger[r]["free"] \in Nat
  BY BucketNat DEF Counters, Buckets
<1>4. bestAccess(r, q.consumer) \in DOMAIN accessScore
  <2> DEFINE usable == {k \in DOMAIN attachments[r] :
                          attachments[r][k].consumer \in {Null, q.consumer}}
             known  == {k \in usable : attachments[r][k].access # "UNKNOWN"}
  <2>1. attachments[r] \in Seq(Attachments) /\ known \in SUBSET Nat
    BY DEF TypeOK
  <2>2. \A k \in known : attachments[r][k].access \in DOMAIN accessScore
    BY <2>1, ScoreAssumption
  <2>3. known # {} => attachments[r][Min(known)].access \in DOMAIN accessScore
    <3> HIDE DEF known
    <3> QED BY <2>1, <2>2, LeastNumber
  <2>4. \A a \in {"DIRECT", "STAGED", "UNKNOWN"} : a \in DOMAIN accessScore
    BY DEF accessScore
  <2> QED BY <2>3, <2>4 DEF bestAccess
<1> QED BY <1>2, <1>3, <1>4 DEF Factors

\* The score of an eligible region is a number.
LEMMA ScoreNumber ==
  ASSUME TypeOK, NEW q \in Requests, NEW r \in EligibleRegions(q)
  PROVE  Score(q, r) \in Int
<1> DEFINE E  == EligibleRegions(q)
           F  == Factors(q, r)
           lt == [s \in E |-> Factors(q, s).latency]
           bd == [s \in E |-> Factors(q, s).bandwidth]
<1>1. E \subseteq Regions /\ r \in E
  BY DEF EligibleRegions, Candidates, KnownRegions
<1>2. IsFiniteSet(E) /\ E # {}
  BY <1>1, FS_Subset, ScoreAssumption
<1>3. lt \in [E -> Int] /\ bd \in [E -> Int]
  BY <1>1, FactorTypes
<1>4. /\ {lt[s] : s \in E} = {Factors(q, s).latency : s \in E}
      /\ {bd[s] : s \in E} = {Factors(q, s).bandwidth : s \in E}
  OBVIOUS
<1> DEFINE maxLat == Max({Factors(q, s).latency : s \in E} \cup {1})
           maxBw  == Max({Factors(q, s).bandwidth : s \in E})
           bwUnit == IF maxBw = 0 THEN 1 ELSE maxBw
           need   == q.requiredBytes * (100 + q.reserveHeadroomFactor)
           lat    == IF F.latency = 0 THEN 0 ELSE 200 * (maxLat - F.latency)
           bw     == IF maxBw = 0 THEN 200 ELSE 200 * F.bandwidth
           unit   == IF need > 0 THEN need ELSE IF need < 0 THEN -need ELSE 1
           least  == IF need > 0 THEN Min({F.free * 100, need})
                     ELSE IF need < 0 THEN -(F.free * 100) ELSE 1
           table  == localityScore[F.locality] + healthScore[F.health]
                       + accessScore[F.access]
<1>5. maxLat \in Int /\ maxBw \in Int
  <2> HIDE DEF lt, bd, E
  <2>1. Max({lt[s] : s \in E} \cup {1}) \in Int
    BY <1>2, <1>3, MaxNumber
  <2>2. Max({bd[s] : s \in E}) \in Int
    BY <1>2, <1>3, MaxNumber
  <2> QED BY <1>4, <2>1, <2>2
<1>6. F.latency \in Int /\ F.bandwidth \in Int /\ F.free \in Int
  BY <1>1, FactorTypes
<1>7. table \in Int
  <2>1. /\ F.locality \in DOMAIN localityScore /\ F.health \in DOMAIN healthScore
        /\ F.access \in DOMAIN accessScore
    BY <1>1, FactorTypes
  <2>2. /\ \A x \in DOMAIN localityScore : localityScore[x] \in Int
        /\ \A x \in DOMAIN healthScore : healthScore[x] \in Int
        /\ \A x \in DOMAIN accessScore : accessScore[x] \in Int
    BY DEF localityScore, healthScore, accessScore
  <2> HIDE DEF F
  <2> QED BY <2>1, <2>2
<1>8. need \in Int
  <2>1. q.requiredBytes \in Int /\ q.reserveHeadroomFactor \in Int
    BY MessageAssumption, ScoreAssumption, MaxWordAssumption DEF Words
  <2> QED BY <2>1
<1>9. unit \in Int /\ least \in Int
  <2> HIDE DEF F, need
  <2>1. F.free * 100 \in Int
    BY <1>6
  <2>2. Min({F.free * 100, need}) \in Int
    BY <1>8, <2>1 DEF Min
  <2> QED BY <1>8, <2>1, <2>2
<1>10. bwUnit \in Int /\ lat \in Int /\ bw \in Int
  <2> HIDE DEF F, maxLat, maxBw
  <2> QED BY <1>5, <1>6
<1>11. Score(q, r) = table * maxLat * bwUnit * unit + lat * bwUnit * unit
                       + bw * maxLat * unit + 150 * least * maxLat * bwUnit
  BY DEF Score
<1> HIDE DEF table, maxLat, bwUnit, unit, lat, bw, least
<1>12. /\ table * maxLat * bwUnit * unit \in Int /\ lat * bwUnit * unit \in Int
       /\ bw * maxLat * unit \in Int /\ 150 * least * maxLat * bwUnit \in Int
  BY <1>5, <1>7, <1>9, <1>10
<1> QED BY <1>11, <1>12

\* The ranking is decided in every state that is type correct.
LEMMA TypesRank == TypeOK => RankingIsDeterministic
<1> SUFFICES ASSUME TypeOK, NEW q \in Requests
             PROVE  /\ EligibleRegions(q) # {} => TopRegions(q) # {}
                    /\ \A r, s \in TopRegions(q) :
                         r # s => Factors(q, r) # Factors(q, s)
  BY DEF RankingIsDeterministic
<1> DEFINE E == EligibleRegions(q)
<1>1. E \subseteq Regions /\ E \subseteq Nat /\ IsFiniteSet(E)
  <2>1. E \subseteq Regions
    BY DEF EligibleRegions, Candidates, KnownRegions
  <2>2. Regions \subseteq Nat
    BY IdAssumption
  <2> QED BY <2>1, <2>2, FS_Subset, ScoreAssumption
<1>2. \A r \in E : Score(q, r) \in Int
  BY ScoreNumber
<1>3. ASSUME E # {} PROVE TopRegions(q) # {}
  <2> DEFINE score == [r \in E |-> Score(q, r)]
  <2>1. score \in [E -> Int]
    BY <1>2
  <2>2. PICK b \in E : \A s \in E : score[s] <= score[b]
    <3> HIDE DEF score, E
    <3> QED BY <1>1, <1>3, <2>1, LargestValue
  <2> DEFINE best == {r \in E : Score(q, r) = Score(q, b)}
  <2>3. best \in SUBSET Nat /\ best # {}
    BY <1>1, <2>2
  <2>4. PICK r \in best : \A s \in best : r <= s
    <3> HIDE DEF best
    <3> QED BY <2>3, LeastNumber
  <2>5. ASSUME NEW s \in E \ {r} PROVE Precedes(q, r, s)
    <3>1. Score(q, s) <= Score(q, r) /\ Score(q, s) \in Int /\ Score(q, r) \in Int
      BY <1>2, <2>2, <2>4
    <3>2. Score(q, s) = Score(q, r) => r < s
      BY <1>1, <2>4
    <3> QED BY <3>1, <3>2 DEF Precedes
  <2> QED BY <2>4, <2>5 DEF TopRegions
<1>4. ASSUME NEW r \in TopRegions(q), NEW s \in TopRegions(q), r # s,
             Factors(q, r) = Factors(q, s)
      PROVE  FALSE
  <2>1. r \in E /\ s \in E /\ Precedes(q, r, s) /\ Precedes(q, s, r)
    BY <1>4 DEF TopRegions
  <2>2. r \in Nat /\ s \in Nat /\ Score(q, r) \in Int /\ Score(q, s) \in Int
    BY <1>1, <1>2, <2>1
  <2>3. Score(q, r) = Score(q, s)
    BY <1>4 DEF Score
  <2> HIDE DEF E
  <2> QED BY <1>4, <2>1, <2>2, <2>3 DEF Precedes
<1> QED BY <1>3, <1>4

\* RankingIsDeterministic of the code's sort: among the eligible regions one is
\* ranked first, and which one depends on the hash map's order at most where
\* different factors weigh the same; for every request and every fabric.
THEOREM RankingDecides == Spec => []RankingIsDeterministic
  BY TypeCorrect, TypesRank, PTL

-----------------------------------------------------------------------------
(***************************************************************************)
(* How a reservation comes to hold bytes after a step: it survives the step *)
(* as it was, is committed, or is made.                                     *)
(***************************************************************************)
\* It is left alone, and what it is bound to is neither replaced nor closed.
Survives(i) ==
  LET v == reservations[i] IN
  /\ reservations'[i] = v
  /\ epoch' = epoch
  /\ regions'[v.region].descriptor = regions[v.region].descriptor
  /\ providers'[v.provider].descriptor = providers[v.provider].descriptor
  /\ v.pool # Null => pools'[v.pool].generation = pools[v.pool].generation
  /\ v.policy # Null =>
       policies'[v.policy].generation = policies[v.policy].generation
  /\ v.worker # Null => \/ workers'[v.worker] = workers[v.worker]
                        \/ workers'[v.worker].alive
  /\ (v.state = "RESERVED" /\ regions'[v.region].lifecycle \in Settled)
       => regions[v.region].lifecycle \in Settled
  /\ regions'[v.region].lifecycle = "RETIRED"
       => regions[v.region].lifecycle = "RETIRED"
  /\ providers'[v.provider].lifecycle = "RETIRED"
       => providers[v.provider].lifecycle = "RETIRED"

\* requestReservation made it.
Made(i) ==
  \E q \in Requests, a \in Authorities : \E r \in EligibleRegions(q) :
    /\ authorityAcceptable(a)
    /\ q.requiredBytes > 0
    /\ reservations'[i] = NewReservation(q, r, a)
    /\ UNCHANGED <<epoch, providers, regions, pools, policies, workers>>

\* commitReservation committed it.
Committed(i) == \E a \in Authorities : commitReservation(i, a)

\* Every reservation that holds bytes after the step survived it.
Spares ==
  \A i \in ReservationIds : reservations'[i].state \in Live => Survives(i)

\* What a fence of S leaves with bytes was not in S and is as it was.
LEMMA MovedSpares ==
  ASSUME TypeOK, NEW S, NEW outcome, Ends(outcome),
         reservations' = Moved(S, outcome),
         NEW i \in ReservationIds, reservations'[i].state \in Live
  PROVE  i \notin S /\ reservations'[i] = reservations[i]
<1>1. reservations[i] \in Reservations /\ reservations[i].state \in AnyState
  BY DEF TypeOK, Reservations, AnyState
<1>2. ASSUME i \in S PROVE FALSE
  <2>1. reservations'[i] = [reservations[i] EXCEPT !.state = outcome[@]]
    BY <1>2 DEF Moved
  <2>2. reservations'[i].state = outcome[reservations[i].state]
    BY <1>1, <2>1 DEF Reservations
  <2> QED BY <1>1, <2>2 DEF Ends, Live
<1>3. i \notin S => reservations'[i] = reservations[i]
  BY DEF Moved
<1> QED BY <1>2, <1>3

\* Fence, whatever set it is given.
LEMMA FenceSpares ==
  ASSUME TypeOK, NEW S, Fence(S),
         NEW i \in ReservationIds, reservations'[i].state \in Live
  PROVE  i \notin S /\ reservations'[i] = reservations[i]
  BY MovedSpares, OutcomesEnd DEF Fence

\* A live reservation is on a registered region, of its provider.
LEMMA LiveTypes ==
  ASSUME TypeOK, LiveReservationCurrent, NEW i \in ReservationIds,
         reservations[i].state \in Live
  PROVE  LET v == reservations[i] IN
         /\ v.region \in KnownRegions /\ v.region \in Regions
         /\ v.provider \in Providers /\ v.provider = BackingProvider(v.region)
         /\ v.pool \in Pools \cup {Null} /\ v.policy \in Policies \cup {Null}
         /\ v.worker \in Workers \cup {Null}
<1>1. reservations[i] \in Reservations
  BY DEF TypeOK
<1>2. /\ reservations[i].region \in KnownRegions
      /\ reservations[i].provider = BackingProvider(reservations[i].region)
  BY DEF LiveReservationCurrent
<1>3. /\ reservations[i].region \in Regions
      /\ BackingProvider(reservations[i].region) \in Providers
  BY <1>2, KnownRegionType
<1> QED BY <1>1, <1>2, <1>3 DEF Reservations

\* Calls that leave reservations, regions, providers and workers alone and keep
\* the generations of pools and policies.
LEMMA FrameSpares ==
  ASSUME UNCHANGED <<epoch, providers, regions, reservations, workers>>,
         \A p \in Pools : pools'[p].generation = pools[p].generation,
         policies' = policies,
         TypeOK, LiveReservationCurrent
  PROVE  Spares
<1> SUFFICES ASSUME NEW i \in ReservationIds, reservations[i].state \in Live
             PROVE  Survives(i)
  BY DEF Spares
<1> QED BY LiveTypes DEF Survives

\* setEpoch spares nothing.
LEMMA SetEpochSpares ==
  ASSUME TypeOK, NEW e, setEpoch(e)
  PROVE  Spares
  BY MovedSpares, OutcomesEnd DEF setEpoch, Spares

\* registerProvider spares the reservations of other providers.
LEMMA RegisterProviderSpares ==
  ASSUME TypeOK, LiveReservationCurrent, NEW a, NEW d \in ProviderDescriptors,
         registerProvider(d, a)
  PROVE  Spares
<1> SUFFICES ASSUME NEW i \in ReservationIds, reservations'[i].state \in Live
             PROVE  Survives(i)
  BY DEF Spares
<1>1. reservations'[i] = reservations[i] /\ reservations[i].provider # d.id
  <2>1. Fence({j \in ReservationIds : reservations[j].provider = d.id})
    BY DEF registerProvider
  <2> QED BY <2>1, FenceSpares
<1>2. /\ reservations[i].region \in Regions /\ reservations[i].provider \in Providers
      /\ reservations[i].provider = BackingProvider(reservations[i].region)
  BY <1>1, LiveTypes
<1>3. providers'[reservations[i].provider] = providers[reservations[i].provider]
  BY <1>1, <1>2 DEF registerProvider, TypeOK
<1>4. regions'[reservations[i].region] = regions[reservations[i].region]
  BY <1>1, <1>2 DEF registerProvider, RegionsOf
<1> QED BY <1>1, <1>3, <1>4 DEF Survives, registerProvider

\* registerRegion spares the reservations on other regions.
LEMMA RegisterRegionSpares ==
  ASSUME TypeOK, LiveReservationCurrent, NEW a, NEW d, registerRegion(d, a)
  PROVE  Spares
<1> SUFFICES ASSUME NEW i \in ReservationIds, reservations'[i].state \in Live
             PROVE  Survives(i)
  BY DEF Spares
<1>1. reservations'[i] = reservations[i] /\ reservations[i].region # d.id
  BY MovedSpares, OutcomesEnd DEF registerRegion, OnRegion
<1>2. reservations[i].region \in Regions
  BY <1>1, LiveTypes
<1>3. regions'[reservations[i].region] = regions[reservations[i].region]
  BY <1>1, <1>2 DEF registerRegion, TypeOK
<1> QED BY <1>1, <1>3 DEF Survives, registerRegion

\* registerPool and registerPolicy spare what names another pool or policy.
LEMMA RegisterPoolSpares ==
  ASSUME TypeOK, LiveReservationCurrent, NEW a, NEW d, registerPool(d, a)
  PROVE  Spares
<1> SUFFICES ASSUME NEW i \in ReservationIds, reservations'[i].state \in Live
             PROVE  Survives(i)
  BY DEF Spares
<1>1. reservations'[i] = reservations[i] /\ reservations[i].pool # d.id
  BY FenceSpares DEF registerPool
<1>2. reservations[i].pool \in Pools \cup {Null}
  BY <1>1, LiveTypes
<1>3. reservations[i].pool # Null =>
        pools'[reservations[i].pool] = pools[reservations[i].pool]
  BY <1>1, <1>2 DEF registerPool, TypeOK
<1> QED BY <1>1, <1>3 DEF Survives, registerPool

\* registerPolicy.
LEMMA RegisterPolicySpares ==
  ASSUME TypeOK, LiveReservationCurrent, NEW a, NEW d, registerPolicy(d, a)
  PROVE  Spares
<1> SUFFICES ASSUME NEW i \in ReservationIds, reservations'[i].state \in Live
             PROVE  Survives(i)
  BY DEF Spares
<1>1. reservations'[i] = reservations[i] /\ reservations[i].policy # d.id
  BY FenceSpares DEF registerPolicy
<1>2. reservations[i].policy \in Policies \cup {Null}
  BY <1>1, LiveTypes
<1>3. reservations[i].policy # Null =>
        policies'[reservations[i].policy] = policies[reservations[i].policy]
  BY <1>1, <1>2 DEF registerPolicy, TypeOK
<1> QED BY <1>1, <1>3 DEF Survives, registerPolicy

\* Pool membership is none of the generations a reservation is bound to.
LEMMA PoolMemberSpares ==
  ASSUME TypeOK, LiveReservationCurrent, NEW a, NEW p, NEW m,
         addPoolMember(p, m, a) \/ removePoolMember(p, m, a)
  PROVE  Spares
<1>1. \A k \in Pools : pools[k] \in PoolRecords
  BY DEF TypeOK
<1>2. \A k \in Pools : pools'[k].generation = pools[k].generation
  <2>1. CASE addPoolMember(p, m, a)
    BY <1>1, <2>1 DEF addPoolMember, PoolRecords, TypeOK
  <2>2. CASE removePoolMember(p, m, a)
    <3>1. PICK s : pools' = [pools EXCEPT ![p].members = s]
      BY <2>2 DEF removePoolMember
    <3> QED BY <1>1, <3>1 DEF PoolRecords, TypeOK
  <2> QED BY <2>1, <2>2
<1> QED BY <1>2, FrameSpares DEF addPoolMember, removePoolMember

\* A call that sets at most the lifecycle of one provider, and not to RETIRED.
ProvidersKept ==
  \A p \in Providers :
    /\ providers'[p].descriptor = providers[p].descriptor
    /\ providers'[p].lifecycle = "RETIRED" => providers[p].lifecycle = "RETIRED"

\* Such a call keeps them.
LEMMA ProviderSet ==
  ASSUME TypeOK, NEW p, NEW to, to # "RETIRED",
         \/ providers' = providers
         \/ providers' = [providers EXCEPT ![p].lifecycle = to]
  PROVE  ProvidersKept
<1> SUFFICES ASSUME NEW k \in Providers
             PROVE  /\ providers'[k].descriptor = providers[k].descriptor
                    /\ providers'[k].lifecycle = "RETIRED"
                         => providers[k].lifecycle = "RETIRED"
  BY DEF ProvidersKept
<1>1. providers[k] \in ProviderRecords
  BY DEF TypeOK
<1>2. CASE providers' = providers
  BY <1>2
<1>3. CASE providers' = [providers EXCEPT ![p].lifecycle = to]
  <2>1. k # p => providers'[k] = providers[k]
    BY <1>3 DEF TypeOK
  <2>2. k = p => providers'[k] = [providers[k] EXCEPT !.lifecycle = to]
    BY <1>3 DEF TypeOK
  <2>3. [providers[k] EXCEPT !.lifecycle = to].descriptor = providers[k].descriptor
        /\ [providers[k] EXCEPT !.lifecycle = to].lifecycle = to
    BY <1>1 DEF ProviderRecords
  <2> QED BY <2>1, <2>2, <2>3
<1> QED BY <1>2, <1>3

\* The publications change lifecycles only, and settle or retire nothing.
LEMMA PublishSpares ==
  ASSUME TypeOK, LiveReservationCurrent, NEW e \in Evidences, NEW a,
         publishRegionEvidence(e, a) \/ publishRefusedLate(e, a)
  PROVE  Spares
<1>1. CASE publishRefusedLate(e, a)
  BY <1>1, FrameSpares DEF publishRefusedLate, Record
<1>2. CASE publishRegionEvidence(e, a)
  <2> SUFFICES ASSUME NEW i \in ReservationIds, reservations[i].state \in Live
               PROVE  Survives(i)
    BY <1>2 DEF Spares, publishRegionEvidence, Record
  <2>1. reservations[i].region \in Regions /\ reservations[i].provider \in Providers
    BY LiveTypes
  <2>2. /\ regions[reservations[i].region] \in RegionRecords
        /\ providers[reservations[i].provider] \in ProviderRecords
    BY <2>1 DEF TypeOK
  <2>3. LET r == reservations[i].region IN
        /\ regions'[r].descriptor = regions[r].descriptor
        /\ regions'[r].lifecycle \in Settled => regions[r].lifecycle \in Settled
        /\ regions'[r].lifecycle = "RETIRED" => regions[r].lifecycle = "RETIRED"
    <3>1. regions' = [regions EXCEPT ![e.region].lifecycle = TargetLifecycle(e.health)]
      BY <1>2 DEF publishRegionEvidence
    <3>2. TargetLifecycle(e.health) \notin Settled
      BY DEF TargetLifecycle, Settled
    <3> QED BY <2>1, <2>2, <3>1, <3>2 DEF TypeOK, RegionRecords, Settled
  <2>4. ProvidersKept
    <3>1. \/ providers' = providers
          \/ providers' =
               [providers EXCEPT ![BackingProvider(e.region)].lifecycle = "ONLINE"]
      BY <1>2 DEF publishRegionEvidence
    <3> QED BY <3>1, ProviderSet
  <2> QED BY <1>2, <2>1, <2>3, <2>4 DEF Survives, ProvidersKept,
             publishRegionEvidence, Record
<1> QED BY <1>1, <1>2

\* A call on region r that keeps its descriptor: what is left to show of the
\* reservations that keep their bytes.
LEMMA RegionCallSpares ==
  ASSUME TypeOK, LiveReservationCurrent, NEW r \in Regions, NEW to,
         SetLifecycle(r, to),
         UNCHANGED <<epoch, pools, policies, workers>>,
         ProvidersKept,
         \A i \in ReservationIds : reservations'[i].state \in Live =>
           /\ reservations'[i] = reservations[i]
           /\ reservations[i].region = r =>
                /\ to # "RETIRED"
                /\ (reservations[i].state = "RESERVED" /\ to \in Settled)
                     => regions[r].lifecycle \in Settled
  PROVE  Spares
<1> SUFFICES ASSUME NEW i \in ReservationIds, reservations'[i].state \in Live
             PROVE  Survives(i)
  BY DEF Spares
<1>1. /\ reservations'[i] = reservations[i]
      /\ reservations[i].region = r =>
           /\ to # "RETIRED"
           /\ (reservations[i].state = "RESERVED" /\ to \in Settled)
                => regions[r].lifecycle \in Settled
  OBVIOUS
<1>2. reservations[i].region \in Regions /\ reservations[i].provider \in Providers
  BY <1>1, LiveTypes
<1>3. LET s == reservations[i].region IN
      /\ regions'[s].descriptor = regions[s].descriptor
      /\ (reservations[i].state = "RESERVED" /\ regions'[s].lifecycle \in Settled)
           => regions[s].lifecycle \in Settled
      /\ regions'[s].lifecycle = "RETIRED" => regions[s].lifecycle = "RETIRED"
  <2>1. regions[r] \in RegionRecords
    BY DEF TypeOK
  <2>2. /\ regions'[r].descriptor = regions[r].descriptor
        /\ regions'[r].lifecycle = to
        /\ \A s \in Regions \ {r} : regions'[s] = regions[s]
    BY <2>1 DEF SetLifecycle, TypeOK, RegionRecords
  <2> QED BY <1>1, <1>2, <2>2
<1> QED BY <1>1, <1>2, <1>3 DEF Survives, ProvidersKept

\* beginDrain cancels what is reserved on the region; the other calls on a
\* region but the fencing ones leave the reservations alone.
LEMMA DrainSpares ==
  ASSUME TypeOK, LiveReservationCurrent, NEW r \in Regions, NEW a,
         \/ beginDrain(r, a)
         \/ completeDrain(r, a)
         \/ cancelDrain(r, a)
         \/ recoverRegion(r, a)
  PROVE  Spares
<1>1. CASE beginDrain(r, a)
  <2>1. \A i \in ReservationIds : reservations'[i].state \in Live =>
          /\ reservations'[i] = reservations[i]
          /\ reservations[i].region = r => reservations[i].state # "RESERVED"
    <3> SUFFICES ASSUME NEW i \in ReservationIds, reservations'[i].state \in Live
                 PROVE  /\ reservations'[i] = reservations[i]
                        /\ i \notin Holding(r, {"RESERVED"})
      BY DEF Holding
    <3>1. reservations' =
            Moved(Holding(r, {"RESERVED"}), [s \in AnyState |-> "CANCELLED"])
      BY <1>1 DEF beginDrain
    <3> QED BY <3>1, MovedSpares, OutcomesEnd
  <2>2. ProvidersKept
    <3>1. \/ providers' = providers
          \/ providers' = [providers EXCEPT ![BackingProvider(r)].lifecycle = "DRAINING"]
      BY <1>1 DEF beginDrain, ProviderFollows
    <3> QED BY <3>1, ProviderSet
  <2>3. SetLifecycle(r, "DRAINING") /\ UNCHANGED <<epoch, pools, policies, workers>>
    BY <1>1 DEF beginDrain, OnKnownRegion
  <2> QED BY <2>1, <2>2, <2>3, RegionCallSpares
<1>2. CASE completeDrain(r, a)
  <2>1. ProvidersKept
    <3>1. \/ providers' = providers
          \/ providers' = [providers EXCEPT ![BackingProvider(r)].lifecycle = "OFFLINE"]
      BY <1>2 DEF completeDrain, ProviderFollows
    <3> QED BY <3>1, ProviderSet
  <2>2. /\ SetLifecycle(r, "UNAVAILABLE") /\ regions[r].lifecycle \in Settled
        /\ UNCHANGED <<epoch, pools, policies, workers, reservations>>
    BY <1>2 DEF completeDrain, OnKnownRegion, Settled
  <2> QED BY <2>1, <2>2, RegionCallSpares
<1>3. CASE cancelDrain(r, a) \/ recoverRegion(r, a)
  <2>1. /\ SetLifecycle(r, "ONLINE") \/ SetLifecycle(r, "DECLARED")
        /\ UNCHANGED <<epoch, pools, policies, workers, reservations, providers>>
    BY <1>3 DEF cancelDrain, recoverRegion, OnKnownRegion
  <2>2. "ONLINE" \notin Settled /\ "DECLARED" \notin Settled /\ ProvidersKept
    BY <2>1 DEF Settled, ProvidersKept
  <2> QED BY <2>1, <2>2, RegionCallSpares
<1> QED BY <1>1, <1>2, <1>3

\* markUnavailable and retireRegion fence everything on the region.
LEMMA WithdrawSpares ==
  ASSUME TypeOK, LiveReservationCurrent, NEW r \in Regions, NEW a,
         markUnavailable(r, a) \/ retireRegion(r, a)
  PROVE  Spares
<1>1. reservations' = Moved(OnRegion(r), FenceOutcome)
  BY DEF markUnavailable, retireRegion, Fence
<1>2. \A i \in ReservationIds : reservations'[i].state \in Live =>
        reservations'[i] = reservations[i] /\ reservations[i].region # r
  <2> SUFFICES ASSUME NEW i \in ReservationIds, reservations'[i].state \in Live
               PROVE  reservations'[i] = reservations[i] /\ i \notin OnRegion(r)
    BY DEF OnRegion
  <2> QED BY <1>1, MovedSpares, OutcomesEnd
<1>3. /\ SetLifecycle(r, "UNAVAILABLE") \/ SetLifecycle(r, "RETIRED")
      /\ UNCHANGED <<epoch, pools, policies, workers>> /\ ProvidersKept
  BY DEF markUnavailable, retireRegion, OnKnownRegion, ProvidersKept
<1> QED BY <1>2, <1>3, RegionCallSpares

\* retireProvider fences what is bound to the provider, so all that its regions
\* hold.
LEMMA RetireProviderSpares ==
  ASSUME TypeOK, LiveReservationCurrent, NEW p \in Providers, NEW a,
         retireProvider(p, a)
  PROVE  Spares
<1> SUFFICES ASSUME NEW i \in ReservationIds, reservations'[i].state \in Live
             PROVE  Survives(i)
  BY DEF Spares
<1>1. reservations'[i] = reservations[i] /\ reservations[i].provider # p
  <2>1. Fence({j \in ReservationIds : reservations[j].provider = p})
    BY DEF retireProvider
  <2> QED BY <2>1, FenceSpares
<1>2. /\ reservations[i].region \in Regions /\ reservations[i].provider \in Providers
      /\ reservations[i].provider = BackingProvider(reservations[i].region)
  BY <1>1, LiveTypes
<1>3. providers'[reservations[i].provider] = providers[reservations[i].provider]
  BY <1>1, <1>2 DEF retireProvider, TypeOK
<1>4. regions'[reservations[i].region] = regions[reservations[i].region]
  BY <1>1, <1>2 DEF retireProvider, RegionsOf
<1> QED BY <1>1, <1>3, <1>4 DEF Survives, retireProvider

\* registerWorker touches no reservation; the boot it registers is alive.
LEMMA RegisterWorkerSpares ==
  ASSUME TypeOK, LiveReservationCurrent, NEW w, NEW b, NEW e, NEW a,
         registerWorker(w, b, e, a)
  PROVE  Spares
<1> SUFFICES ASSUME NEW i \in ReservationIds, reservations[i].state \in Live
             PROVE  Survives(i)
  BY DEF Spares, registerWorker
<1>1. reservations[i].worker \in Workers \cup {Null}
  BY LiveTypes
<1>2. reservations[i].worker # Null =>
        \/ workers'[reservations[i].worker] = workers[reservations[i].worker]
        \/ workers'[reservations[i].worker].alive
  BY <1>1 DEF registerWorker, TypeOK
<1> QED BY <1>2 DEF Survives, registerWorker

\* markWorkerDead spares what other workers reserved on other evidence.
LEMMA MarkWorkerDeadSpares ==
  ASSUME TypeOK, LiveReservationCurrent, NEW w, NEW a, markWorkerDead(w, a)
  PROVE  Spares
<1> SUFFICES ASSUME NEW i \in ReservationIds, reservations'[i].state \in Live
             PROVE  Survives(i)
  BY DEF Spares
<1>1. /\ reservations'[i] = reservations[i] /\ reservations[i].worker # w
      /\ reservations[i].region \notin Observed(w)
  <2>1. Fence({j \in ReservationIds : \/ reservations[j].worker = w
                                      \/ reservations[j].region \in Observed(w)})
    BY DEF markWorkerDead
  <2> QED BY <2>1, FenceSpares
<1>2. reservations[i].region \in Regions /\ reservations[i].worker \in Workers \cup {Null}
  BY <1>1, LiveTypes
<1>3. reservations[i].worker # Null =>
        workers'[reservations[i].worker] = workers[reservations[i].worker]
  BY <1>1, <1>2 DEF markWorkerDead, TypeOK
<1>4. regions'[reservations[i].region] = regions[reservations[i].region]
  BY <1>1, <1>2 DEF markWorkerDead
<1> QED BY <1>1, <1>3, <1>4 DEF Survives, markWorkerDead

\* Every reservation that holds bytes after a step survived it, was committed or
\* was made by it.
LiveStep ==
  \A i \in ReservationIds : reservations'[i].state \in Live =>
    Survives(i) \/ Committed(i) \/ Made(i)

\* The three calls on reservations.
LEMMA ReserveLives ==
  ASSUME TypeOK, LiveReservationCurrent, NEW a \in Authorities, Reserve(a)
  PROVE  LiveStep
<1> SUFFICES ASSUME NEW i \in ReservationIds, reservations'[i].state \in Live
             PROVE  Survives(i) \/ Committed(i) \/ Made(i)
  BY DEF LiveStep
<1>1. CASE \E q \in Requests : requestReservation(q, a)
  <2>1. PICK q \in Requests : requestReservation(q, a)
    BY <1>1
  <2>2. PICK r \in TopRegions(q), j \in ReservationIds :
          reservations' = [reservations EXCEPT ![j] = NewReservation(q, r, a)]
    BY <2>1 DEF requestReservation
  <2>3. CASE i = j
    <3>1. reservations'[i] = NewReservation(q, r, a) /\ r \in EligibleRegions(q)
      BY <2>2, <2>3 DEF TypeOK, TopRegions
    <3> QED BY <2>1, <3>1 DEF Made, requestReservation
  <2>4. CASE i # j
    <3>1. reservations'[i] = reservations[i]
      BY <2>2, <2>4 DEF TypeOK
    <3> QED BY <2>1, <3>1 DEF Survives, requestReservation
  <2> QED BY <2>3, <2>4
<1>2. ASSUME NEW j \in ReservationIds,
             commitReservation(j, a) \/ releaseReservation(j, a)
      PROVE  Survives(i) \/ Committed(i) \/ Made(i)
  <2>1. CASE i # j
    <3>1. reservations'[i] = reservations[i]
      BY <1>2, <2>1 DEF commitReservation, releaseReservation, TypeOK
    <3> QED BY <1>2, <3>1
         DEF Survives, commitReservation, releaseReservation, OnReservation
  <2>2. CASE i = j /\ commitReservation(j, a)
    BY <2>2 DEF Committed
  <2>3. CASE i = j /\ releaseReservation(j, a)
    <3>1. reservations[i] \in Reservations
      BY DEF TypeOK
    <3>2. reservations'[i].state = "RELEASED"
      BY <2>3, <3>1 DEF releaseReservation, TypeOK, Reservations
    <3> QED BY <3>2 DEF Live, Promised
  <2> QED BY <1>2, <2>1, <2>2, <2>3
<1> QED BY <1>1, <1>2 DEF Reserve

\* The whole next-state relation.
LEMMA NextLives ==
  ASSUME TypeOK, LiveReservationCurrent, [Next]_vars
  PROVE  LiveStep
<1>1. Spares => LiveStep
  BY DEF Spares, LiveStep
<1>2. CASE UNCHANGED vars
  BY <1>1, <1>2, FrameSpares DEF vars
<1>3. CASE \E e \in Epochs : setEpoch(e)
  BY <1>1, <1>3, SetEpochSpares
<1>4. ASSUME NEW a \in Authorities, Register(a) PROVE LiveStep
  <2>1. ASSUME NEW c, NEW g, registerConsumer(c, g, a) PROVE Spares
    BY <2>1, FrameSpares DEF registerConsumer
  <2>2. ASSUME NEW d, NEW g, registerDomain(d, g, a) PROVE Spares
    BY <2>2, FrameSpares DEF registerDomain
  <2> QED BY <1>1, <1>4, <2>1, <2>2, RegisterProviderSpares, RegisterRegionSpares,
             RegisterPoolSpares, RegisterPolicySpares, PoolMemberSpares
          DEF Register
<1>5. ASSUME NEW a \in Authorities, Publish(a) PROVE LiveStep
  <2>1. ASSUME NEW t, publishAttachment(t, a) PROVE Spares
    BY <2>1, FrameSpares DEF publishAttachment
  <2> QED BY <1>1, <1>5, <2>1, PublishSpares DEF Publish
<1>6. ASSUME NEW a \in Authorities, Transition(a) PROVE LiveStep
  BY <1>1, <1>6, DrainSpares, WithdrawSpares, RetireProviderSpares DEF Transition
<1>7. ASSUME NEW a \in Authorities, Work(a) PROVE LiveStep
  BY <1>1, <1>7, RegisterWorkerSpares, MarkWorkerDeadSpares DEF Work
<1>8. ASSUME NEW a \in Authorities, Reserve(a) PROVE LiveStep
  BY <1>8, ReserveLives
<1> QED BY <1>2, <1>3, <1>4, <1>5, <1>6, <1>7, <1>8 DEF Next

-----------------------------------------------------------------------------
(***************************************************************************)
(* The invariants of the live reservations.                                 *)
(***************************************************************************)
\* A reservation that is made is bound to what is current.
LEMMA MadeType ==
  ASSUME TypeOK, NEW i \in ReservationIds, Made(i)
  PROVE  LET v == reservations'[i] IN
         /\ v.state = "RESERVED" /\ v.bytes > 0
         /\ v.region \in Regions /\ v.region \in KnownRegions
         /\ v.regionGeneration = RegionGeneration(v.region)
         /\ v.provider = BackingProvider(v.region)
         /\ v.providerGeneration = ProviderGeneration(v.provider)
         /\ v.pool # Null => v.poolGeneration = pools[v.pool].generation
         /\ v.policy # Null => v.policyGeneration = policies[v.policy].generation
         /\ v.epoch = epoch
         /\ v.worker # Null => /\ workers[v.worker].alive
                               /\ workers[v.worker].boot = v.boot
         /\ regions[v.region].lifecycle \in {"ONLINE", "DEGRADED"}
         /\ providers[v.provider].lifecycle # "RETIRED"
         /\ evidence[v.region].status = "CURRENT"
         /\ UNCHANGED <<epoch, providers, regions, pools, policies, workers>>
<1>0. PICK q \in Requests, a \in Authorities : \E r \in EligibleRegions(q) :
        /\ authorityAcceptable(a)
        /\ q.requiredBytes > 0
        /\ reservations'[i] = NewReservation(q, r, a)
        /\ UNCHANGED <<epoch, providers, regions, pools, policies, workers>>
  BY DEF Made
<1>1. PICK r \in EligibleRegions(q) :
        /\ authorityAcceptable(a)
        /\ q.requiredBytes > 0
        /\ reservations'[i] = NewReservation(q, r, a)
        /\ UNCHANGED <<epoch, providers, regions, pools, policies, workers>>
  BY <1>0
<1>2. /\ r \in KnownRegions /\ r \in Regions
      /\ regions[r].lifecycle \in {"ONLINE", "DEGRADED"}
      /\ providers[BackingProvider(r)].lifecycle # "RETIRED"
      /\ evidence[r].status = "CURRENT"
  BY EligibleInService
<1> QED BY <1>1, <1>2 DEF NewReservation, authorityAcceptable

\* A reservation that is committed was RESERVED and passed commit's checks.
LEMMA CommittedType ==
  ASSUME TypeOK, NEW i \in ReservationIds, Committed(i)
  PROVE  LET v == reservations[i]  w == reservations'[i] IN
         /\ w.state = "COMMITTED" /\ v.state = "RESERVED"
         /\ w = [v EXCEPT !.state = "COMMITTED"]
         /\ w.bytes = v.bytes /\ w.epoch = v.epoch
         /\ w.region = v.region /\ w.regionGeneration = v.regionGeneration
         /\ w.provider = v.provider /\ w.providerGeneration = v.providerGeneration
         /\ w.pool = v.pool /\ w.poolGeneration = v.poolGeneration
         /\ w.policy = v.policy /\ w.policyGeneration = v.policyGeneration
         /\ w.worker = v.worker /\ w.boot = v.boot
         /\ RegionCommits(v) /\ BindingsCurrent(v)
         /\ v.worker # Null => /\ workers[v.worker].alive
                               /\ workers[v.worker].boot = v.boot
         /\ UNCHANGED <<epoch, providers, regions, evidence, pools, policies, workers>>
<1>1. PICK a \in Authorities : commitReservation(i, a)
  BY DEF Committed
<1>2. reservations[i] \in Reservations
  BY DEF TypeOK
<1>3. reservations'[i] = [reservations[i] EXCEPT !.state = "COMMITTED"]
  BY <1>1 DEF commitReservation, TypeOK
<1> QED BY <1>1, <1>2, <1>3
     DEF commitReservation, OnReservation, HolderCommits, Reservations

\* What the two invariants below need of it.
LEMMA CommittedKeeps ==
  ASSUME TypeOK, NEW i \in ReservationIds, Committed(i)
  PROVE  /\ reservations[i].state = "RESERVED"
         /\ reservations'[i].region = reservations[i].region
         /\ reservations'[i].provider = reservations[i].provider
         /\ reservations'[i].worker = reservations[i].worker
         /\ reservations[i].worker # Null => workers[reservations[i].worker].alive
         /\ regions' = regions /\ providers' = providers /\ workers' = workers
  BY CommittedType

\* LiveReservationCurrent is inductive: a call that replaces a region, a
\* provider, a pool, a policy or the epoch fences all that is bound to it.
LEMMA NextCurrent ==
  ASSUME TypeOK, LiveReservationCurrent, [Next]_vars
  PROVE  LiveReservationCurrent'
<1> SUFFICES ASSUME NEW i \in ReservationIds, reservations'[i].state \in Live
             PROVE  LET v == reservations'[i] IN
                    /\ v.bytes > 0
                    /\ v.region \in Regions
                    /\ regions'[v.region].descriptor.generation # 0
                    /\ v.regionGeneration = regions'[v.region].descriptor.generation
                    /\ v.provider = regions'[v.region].descriptor.provider
                    /\ v.providerGeneration
                         = providers'[v.provider].descriptor.generation
                    /\ v.pool # Null => v.poolGeneration = pools'[v.pool].generation
                    /\ v.policy # Null =>
                         v.policyGeneration = policies'[v.policy].generation
                    /\ v.epoch = epoch'
  BY DEF LiveReservationCurrent, KnownRegions, RegionGeneration, BackingProvider,
         ProviderGeneration, Live, Promised
<1>1. Survives(i) \/ Committed(i) \/ Made(i)
  BY NextLives DEF LiveStep
<1>2. CASE Survives(i)
  BY <1>2 DEF Survives, LiveReservationCurrent, KnownRegions, RegionGeneration,
              BackingProvider, ProviderGeneration
<1>3. CASE Committed(i)
  <2>1. reservations[i].state \in Live
    BY <1>3, CommittedType DEF Live
  <2>2. LET v == reservations[i] IN
        /\ v.bytes > 0
        /\ v.region \in KnownRegions
        /\ v.regionGeneration = RegionGeneration(v.region)
        /\ v.provider = BackingProvider(v.region)
        /\ v.providerGeneration = ProviderGeneration(v.provider)
        /\ v.pool # Null => v.poolGeneration = pools[v.pool].generation
        /\ v.policy # Null => v.policyGeneration = policies[v.policy].generation
        /\ v.epoch = epoch
    BY <2>1 DEF LiveReservationCurrent
  <2> QED BY <1>3, <2>2, CommittedType
       DEF KnownRegions, RegionGeneration, BackingProvider, ProviderGeneration
<1>4. CASE Made(i)
  BY <1>4, MadeType
  DEF KnownRegions, RegionGeneration, BackingProvider, ProviderGeneration
<1> QED BY <1>1, <1>2, <1>3, <1>4

\* So is SettledHoldsNothing, given that every binding is current.
LEMMA NextSettled ==
  ASSUME TypeOK, LiveReservationCurrent, SettledHoldsNothing, [Next]_vars
  PROVE  SettledHoldsNothing'
<1> SUFFICES ASSUME NEW i \in ReservationIds, reservations'[i].state \in Live
             PROVE  LET v == reservations'[i] IN
                    /\ v.state = "RESERVED" =>
                         regions'[v.region].lifecycle \notin Settled
                    /\ regions'[v.region].lifecycle # "RETIRED"
                    /\ providers'[v.provider].lifecycle # "RETIRED"
  BY DEF SettledHoldsNothing, Live, Promised, Settled
<1>1. Survives(i) \/ Committed(i) \/ Made(i)
  BY NextLives DEF LiveStep
<1>2. CASE Survives(i)
  BY <1>2 DEF Survives, SettledHoldsNothing
<1>3. CASE Committed(i)
  <2>1. /\ reservations[i].state = "RESERVED"
        /\ reservations'[i].region = reservations[i].region
        /\ reservations'[i].provider = reservations[i].provider
        /\ regions' = regions /\ providers' = providers
    BY <1>3, CommittedKeeps
  <2> QED BY <2>1 DEF SettledHoldsNothing, Live, Promised
<1>4. CASE Made(i)
  BY <1>4, MadeType DEF Settled
<1> QED BY <1>1, <1>2, <1>3, <1>4

\* So is NoReservationOfDeadBoot.
LEMMA NextDeadBoot ==
  ASSUME TypeOK, LiveReservationCurrent, NoReservationOfDeadBoot, [Next]_vars
  PROVE  NoReservationOfDeadBoot'
<1> SUFFICES ASSUME NEW i \in ReservationIds, reservations'[i].state \in Live,
                    reservations'[i].worker # Null,
                    workers'[reservations'[i].worker].boot = reservations'[i].boot
             PROVE  workers'[reservations'[i].worker].alive
  BY DEF NoReservationOfDeadBoot, Live, Promised
<1>1. Survives(i) \/ Committed(i) \/ Made(i)
  BY NextLives DEF LiveStep
<1>2. CASE Survives(i)
  BY <1>2 DEF Survives, NoReservationOfDeadBoot
<1>3. CASE Committed(i)
  <2>1. /\ reservations'[i].worker = reservations[i].worker
        /\ reservations[i].worker # Null => workers[reservations[i].worker].alive
        /\ workers' = workers
    BY <1>3, CommittedKeeps
  <2> QED BY <2>1
<1>4. CASE Made(i)
  BY <1>4, MadeType
<1> QED BY <1>1, <1>2, <1>3, <1>4

\* The invariants of the live reservations together with the types they need.
BoundInv ==
  IInv /\ LiveReservationCurrent /\ SettledHoldsNothing /\ NoReservationOfDeadBoot

\* It holds at the start, where no reservation holds anything.
LEMMA InitBound == Init => BoundInv
<1> SUFFICES ASSUME Init PROVE BoundInv
  OBVIOUS
<1>1. \A i \in ReservationIds : reservations[i].state \notin Live
  BY DEF Init, NoReservation, Live, Promised
<1> QED BY <1>1, InitIInv
     DEF BoundInv, LiveReservationCurrent, SettledHoldsNothing,
         NoReservationOfDeadBoot

\* Every call keeps it.
LEMMA NextBound == BoundInv /\ [Next]_vars => BoundInv'
  BY NextIInv, NextCurrent, NextSettled, NextDeadBoot DEF BoundInv, IInv

\* It holds of every behaviour.
LEMMA AlwaysBound == Spec => []BoundInv
  BY InitBound, NextBound, PTL DEF Spec

\* A reservation that holds bytes is bound to current generations of its region,
\* provider, pool and policy and to the current epoch: every call of fabric.cpp
\* that replaces one of them fences whatever was bound to the old one.
THEOREM BindingsHold == Spec => []LiveReservationCurrent
<1>1. BoundInv => LiveReservationCurrent
  BY DEF BoundInv
<1> QED BY <1>1, AlwaysBound, PTL

\* No bytes stay reserved on a region that drains, is withdrawn or retired, and
\* none of any kind on a retired region or provider.
THEOREM SettledIsEmpty == Spec => []SettledHoldsNothing
<1>1. BoundInv => SettledHoldsNothing
  BY DEF BoundInv
<1> QED BY <1>1, AlwaysBound, PTL

\* markWorkerDead leaves no live reservation of the boot that died, and nothing
\* brings one back.
THEOREM DeadBootHoldsNothing == Spec => []NoReservationOfDeadBoot
<1>1. BoundInv => NoReservationOfDeadBoot
  BY DEF BoundInv
<1> QED BY <1>1, AlwaysBound, PTL

-----------------------------------------------------------------------------
(***************************************************************************)
(* The evidence.                                                            *)
(***************************************************************************)
\* CURRENT evidence is of a registered region that has left DECLARED: the record
\* of a new region and recoverRegion start from evidence that is not CURRENT.
CurrentEvidenceInUse ==
  \A r \in Regions : evidence[r].status = "CURRENT" =>
    r \in KnownRegions /\ regions[r].lifecycle # "DECLARED"

\* The inductive invariant: CurrentEvidenceIsFresh alone says nothing of the
\* provider that a region not registered would have.
EvidenceInv == CurrentEvidenceIsFresh /\ CurrentEvidenceInUse

\* A step after which CURRENT evidence was there before, of the same region.
LEMMA EvidenceKept ==
  ASSUME TypeOK, EvidenceInv, epoch' = epoch,
         \A r \in Regions : evidence'[r].status = "CURRENT" =>
           /\ evidence'[r] = evidence[r]
           /\ regions'[r].descriptor = regions[r].descriptor
           /\ regions'[r].lifecycle = "DECLARED" => regions[r].lifecycle = "DECLARED"
           /\ r \in KnownRegions => providers'[BackingProvider(r)].descriptor
                                      = providers[BackingProvider(r)].descriptor
  PROVE  EvidenceInv'
<1> SUFFICES ASSUME NEW r \in Regions, evidence'[r].status = "CURRENT"
             PROVE  /\ evidence'[r].has
                    /\ evidence'[r].latest.epoch = epoch'
                    /\ evidence'[r].latest.regionGeneration
                         = regions'[r].descriptor.generation
                    /\ evidence'[r].latest.sourceProvider
                         = regions'[r].descriptor.provider =>
                         evidence'[r].latest.sourceProviderGeneration
                           = providers'[regions'[r].descriptor.provider]
                               .descriptor.generation
                    /\ regions'[r].descriptor.generation # 0
                    /\ regions'[r].lifecycle # "DECLARED"
  BY DEF EvidenceInv, CurrentEvidenceIsFresh, CurrentEvidenceInUse, KnownRegions,
         RegionGeneration, ProviderGeneration, BackingProvider
<1>1. /\ evidence'[r] = evidence[r]
      /\ regions'[r].descriptor = regions[r].descriptor
      /\ r \in KnownRegions /\ regions'[r].lifecycle # "DECLARED"
      /\ providers'[BackingProvider(r)].descriptor
           = providers[BackingProvider(r)].descriptor
  BY DEF EvidenceInv, CurrentEvidenceInUse
<1> QED BY <1>1
     DEF EvidenceInv, CurrentEvidenceIsFresh, KnownRegions,
         RegionGeneration, ProviderGeneration, BackingProvider

\* Calls that touch neither evidence nor what it describes.
LEMMA EvidenceFrame ==
  ASSUME TypeOK, EvidenceInv, UNCHANGED <<epoch, providers, regions, evidence>>
  PROVE  EvidenceInv'
  BY EvidenceKept

\* setEpoch leaves no evidence CURRENT.
LEMMA SetEpochEvidence ==
  ASSUME TypeOK, EvidenceInv, NEW e, setEpoch(e)
  PROVE  EvidenceInv'
<1>1. \A r \in Regions : evidence'[r].status # "CURRENT"
  <2> SUFFICES ASSUME NEW r \in Regions PROVE evidence'[r].status # "CURRENT"
    OBVIOUS
  <2>1. evidence[r] \in EvidenceRecords
    BY DEF TypeOK
  <2> QED BY <2>1 DEF setEpoch, EvidenceInv, CurrentEvidenceIsFresh, EvidenceRecords
<1> QED BY <1>1 DEF EvidenceInv, CurrentEvidenceIsFresh, CurrentEvidenceInUse

\* registerProvider takes the evidence from the regions of the provider.
LEMMA RegisterProviderEvidence ==
  ASSUME TypeOK, EvidenceInv, NEW d \in ProviderDescriptors, NEW a,
         registerProvider(d, a)
  PROVE  EvidenceInv'
<1> SUFFICES ASSUME NEW r \in Regions, evidence'[r].status = "CURRENT"
             PROVE  /\ evidence'[r] = evidence[r]
                    /\ regions'[r] = regions[r]
                    /\ r \in KnownRegions => providers'[BackingProvider(r)]
                                               = providers[BackingProvider(r)]
  BY EvidenceKept DEF registerProvider
<1>1. evidence[r] \in EvidenceRecords
  BY DEF TypeOK
<1>2. r \notin RegionsOf(d.id)
  BY <1>1 DEF registerProvider, EvidenceRecords
<1>3. evidence'[r] = evidence[r] /\ regions'[r] = regions[r]
  BY <1>2 DEF registerProvider
<1>4. r \in KnownRegions => BackingProvider(r) # d.id /\ BackingProvider(r) \in Providers
  BY <1>2, KnownRegionType DEF RegionsOf
<1> QED BY <1>3, <1>4 DEF registerProvider, TypeOK

\* registerRegion starts without evidence.
LEMMA RegisterRegionEvidence ==
  ASSUME TypeOK, EvidenceInv, NEW d \in RegionDescriptors, NEW a,
         registerRegion(d, a)
  PROVE  EvidenceInv'
<1> SUFFICES ASSUME NEW r \in Regions, evidence'[r].status = "CURRENT"
             PROVE  /\ evidence'[r] = evidence[r]
                    /\ regions'[r] = regions[r]
  BY EvidenceKept DEF registerRegion
<1>1. r # d.id
  BY DEF registerRegion, NoEvidence, TypeOK
<1> QED BY <1>1 DEF registerRegion, TypeOK

\* The publications write evidence whose header is current.
LEMMA RecordEvidence ==
  ASSUME TypeOK, EvidenceInv, NEW e \in Evidences, NEW a,
         publishRegionEvidence(e, a) \/ publishRefusedLate(e, a)
  PROVE  EvidenceInv'
<1>1. /\ HeaderCurrent(e) /\ epoch' = epoch /\ e.region \in Regions
      /\ evidence' = [evidence EXCEPT ![e.region] =
                        [latest |-> e, has |-> TRUE, status |-> "CURRENT"]]
  BY MessageAssumption DEF publishRegionEvidence, publishRefusedLate, Publishable, Record
<1>2. ProvidersKept
  <2>1. \/ providers' = providers
        \/ providers' =
             [providers EXCEPT ![BackingProvider(e.region)].lifecycle = "ONLINE"]
    BY DEF publishRegionEvidence, publishRefusedLate
  <2> QED BY <2>1, ProviderSet
<1>3. \A r \in Regions :
        /\ regions'[r].descriptor = regions[r].descriptor
        /\ r # e.region => regions'[r] = regions[r]
  <2>1. CASE publishRefusedLate(e, a)
    BY <2>1 DEF publishRefusedLate
  <2>2. CASE publishRegionEvidence(e, a)
    <3>1. regions[e.region] \in RegionRecords
      BY <1>1 DEF TypeOK
    <3> QED BY <1>1, <2>2, <3>1 DEF publishRegionEvidence, TypeOK, RegionRecords
  <2> QED BY <2>1, <2>2
<1>4. regions'[e.region].lifecycle # "DECLARED"
  <2>1. regions[e.region] \in RegionRecords
    BY <1>1 DEF TypeOK
  <2>2. CASE publishRefusedLate(e, a)
    <3>1. ~LifecycleFollows(e) /\ regions' = regions
      BY <2>2 DEF publishRefusedLate
    <3>2. regionLifecycleAllowed("DECLARED", TargetLifecycle(e.health))
      BY DEF regionLifecycleAllowed, RegionSuccessors, TargetLifecycle
    <3> QED BY <3>1, <3>2 DEF LifecycleFollows
  <2>3. CASE publishRegionEvidence(e, a)
    <3>1. regions'[e.region].lifecycle = TargetLifecycle(e.health)
      BY <1>1, <2>1, <2>3 DEF publishRegionEvidence, TypeOK, RegionRecords
    <3> QED BY <3>1 DEF TargetLifecycle
  <2> QED BY <2>2, <2>3
<1> SUFFICES ASSUME NEW r \in Regions, evidence'[r].status = "CURRENT"
             PROVE  /\ evidence'[r].has
                    /\ evidence'[r].latest.epoch = epoch'
                    /\ evidence'[r].latest.regionGeneration
                         = regions'[r].descriptor.generation
                    /\ evidence'[r].latest.sourceProvider
                         = regions'[r].descriptor.provider =>
                         evidence'[r].latest.sourceProviderGeneration
                           = providers'[regions'[r].descriptor.provider]
                               .descriptor.generation
                    /\ regions'[r].descriptor.generation # 0
                    /\ regions'[r].lifecycle # "DECLARED"
  BY DEF EvidenceInv, CurrentEvidenceIsFresh, CurrentEvidenceInUse, KnownRegions,
         RegionGeneration, ProviderGeneration, BackingProvider
<1>5. CASE r = e.region
  <2>1. evidence'[r] = [latest |-> e, has |-> TRUE, status |-> "CURRENT"]
    BY <1>1, <1>5 DEF TypeOK
  <2>2. BackingProvider(r) \in Providers
    BY <1>1, <1>5, KnownRegionType DEF HeaderCurrent
  <2> QED BY <1>1, <1>2, <1>3, <1>4, <1>5, <2>1, <2>2
       DEF HeaderCurrent, ProvidersKept, KnownRegions, RegionGeneration,
           ProviderGeneration, BackingProvider
<1>6. CASE r # e.region
  <2>1. evidence'[r] = evidence[r] /\ regions'[r] = regions[r]
    BY <1>1, <1>3, <1>6 DEF TypeOK
  <2>2. r \in KnownRegions /\ regions[r].lifecycle # "DECLARED"
    BY <2>1 DEF EvidenceInv, CurrentEvidenceInUse
  <2>3. BackingProvider(r) \in Providers
    BY <2>2, KnownRegionType
  <2> QED BY <1>1, <1>2, <2>1, <2>2, <2>3
       DEF EvidenceInv, CurrentEvidenceIsFresh, ProvidersKept, KnownRegions,
           RegionGeneration, ProviderGeneration, BackingProvider
<1> QED BY <1>5, <1>6

\* The calls on one region: the lifecycle they set is not DECLARED, but for
\* recoverRegion, which asks for fresh evidence.
LEMMA RegionCallEvidence ==
  ASSUME TypeOK, EvidenceInv, NEW r \in Regions, NEW a,
         \/ beginDrain(r, a)
         \/ completeDrain(r, a)
         \/ cancelDrain(r, a)
         \/ markUnavailable(r, a)
         \/ retireRegion(r, a)
         \/ recoverRegion(r, a)
  PROVE  EvidenceInv'
<1>1. epoch' = epoch
  BY DEF beginDrain, completeDrain, cancelDrain, markUnavailable, retireRegion,
         recoverRegion, OnKnownRegion
<1>2. ProvidersKept
  <2>1. \/ providers' = providers
        \/ providers' = [providers EXCEPT ![BackingProvider(r)].lifecycle = "DRAINING"]
        \/ providers' = [providers EXCEPT ![BackingProvider(r)].lifecycle = "OFFLINE"]
    BY DEF beginDrain, completeDrain, cancelDrain, markUnavailable, retireRegion,
           recoverRegion, ProviderFollows
  <2> QED BY <2>1, ProviderSet
<1>3. \E to \in RegionStates :
        /\ SetLifecycle(r, to)
        /\ \/ evidence' = evidence /\ to # "DECLARED"
           \/ evidence' = [evidence EXCEPT ![r].status = "REVALIDATION_REQUIRED"]
  BY DEF beginDrain, completeDrain, cancelDrain, markUnavailable, retireRegion,
         recoverRegion, RegionStates
<1>4. PICK to \in RegionStates :
        /\ SetLifecycle(r, to)
        /\ \/ evidence' = evidence /\ to # "DECLARED"
           \/ evidence' = [evidence EXCEPT ![r].status = "REVALIDATION_REQUIRED"]
  BY <1>3
<1>5. \A s \in Regions :
        /\ regions'[s].descriptor = regions[s].descriptor
        /\ s # r => regions'[s] = regions[s]
        /\ s = r => regions'[s].lifecycle = to
  <2>1. regions[r] \in RegionRecords
    BY DEF TypeOK
  <2> QED BY <1>4, <2>1 DEF SetLifecycle, TypeOK, RegionRecords
<1> SUFFICES ASSUME NEW s \in Regions, evidence'[s].status = "CURRENT"
             PROVE  /\ evidence'[s] = evidence[s]
                    /\ regions'[s].lifecycle = "DECLARED"
                         => regions[s].lifecycle = "DECLARED"
                    /\ s \in KnownRegions => BackingProvider(s) \in Providers
  BY <1>1, <1>2, <1>5, EvidenceKept DEF ProvidersKept
<1>6. evidence'[s] = evidence[s] /\ (s = r => to # "DECLARED")
  <2>1. evidence[s] \in EvidenceRecords
    BY DEF TypeOK
  <2> QED BY <1>4, <2>1 DEF TypeOK, EvidenceRecords
<1> QED BY <1>5, <1>6, KnownRegionType

\* retireProvider leaves the evidence, of regions that are not DECLARED.
LEMMA RetireProviderEvidence ==
  ASSUME TypeOK, EvidenceInv, NEW p \in Providers, NEW a, retireProvider(p, a)
  PROVE  EvidenceInv'
<1>1. \A r \in Regions : regions[r] \in RegionRecords
  BY DEF TypeOK
<1>2. \A k \in Providers : providers'[k].descriptor = providers[k].descriptor
  BY DEF retireProvider, TypeOK, ProviderRecords
<1>3. \A r \in Regions :
        /\ regions'[r].descriptor = regions[r].descriptor
        /\ regions'[r].lifecycle = "DECLARED" => regions[r].lifecycle = "DECLARED"
  BY <1>1 DEF retireProvider, RegionRecords
<1> QED BY <1>2, <1>3, EvidenceKept, KnownRegionType DEF retireProvider

\* markWorkerDead asks for fresh evidence where the worker observed.
LEMMA MarkWorkerDeadEvidence ==
  ASSUME TypeOK, EvidenceInv, NEW w, NEW a, markWorkerDead(w, a)
  PROVE  EvidenceInv'
<1>1. \A r \in Regions :
        regions[r] \in RegionRecords /\ evidence[r] \in EvidenceRecords
  BY DEF TypeOK
<1>2. \A r \in Regions : evidence'[r].status = "CURRENT" => r \notin Observed(w)
  BY <1>1 DEF markWorkerDead, EvidenceRecords
<1>3. \A r \in Regions : evidence'[r].status = "CURRENT" =>
        evidence'[r] = evidence[r] /\ regions'[r] = regions[r]
  BY <1>2 DEF markWorkerDead
<1> QED BY <1>3, EvidenceKept DEF markWorkerDead

\* Every call keeps CURRENT evidence fresh.
LEMMA NextEvidence ==
  ASSUME TypeOK, EvidenceInv, [Next]_vars
  PROVE  EvidenceInv'
<1>1. CASE UNCHANGED vars
  BY <1>1, EvidenceFrame DEF vars
<1>2. CASE \E e \in Epochs : setEpoch(e)
  BY <1>2, SetEpochEvidence
<1>3. ASSUME NEW a \in Authorities, Register(a) PROVE EvidenceInv'
  <2>1. ASSUME NEW c, NEW g, registerConsumer(c, g, a) PROVE EvidenceInv'
    BY <2>1, EvidenceFrame DEF registerConsumer
  <2>2. ASSUME NEW d, NEW g, registerDomain(d, g, a) PROVE EvidenceInv'
    BY <2>2, EvidenceFrame DEF registerDomain
  <2>3. ASSUME NEW d, registerPool(d, a) PROVE EvidenceInv'
    BY <2>3, EvidenceFrame DEF registerPool
  <2>4. ASSUME NEW d, registerPolicy(d, a) PROVE EvidenceInv'
    BY <2>4, EvidenceFrame DEF registerPolicy
  <2>5. ASSUME NEW p, NEW m, addPoolMember(p, m, a) PROVE EvidenceInv'
    BY <2>5, EvidenceFrame DEF addPoolMember
  <2>6. ASSUME NEW p, NEW r, removePoolMember(p, r, a) PROVE EvidenceInv'
    BY <2>6, EvidenceFrame DEF removePoolMember
  <2> QED BY <1>3, <2>1, <2>2, <2>3, <2>4, <2>5, <2>6, RegisterProviderEvidence,
             RegisterRegionEvidence DEF Register
<1>4. ASSUME NEW a \in Authorities, Publish(a) PROVE EvidenceInv'
  <2>1. ASSUME NEW t, publishAttachment(t, a) PROVE EvidenceInv'
    BY <2>1, EvidenceFrame DEF publishAttachment
  <2> QED BY <1>4, <2>1, RecordEvidence DEF Publish
<1>5. ASSUME NEW a \in Authorities, Transition(a) PROVE EvidenceInv'
  BY <1>5, RegionCallEvidence, RetireProviderEvidence DEF Transition
<1>6. ASSUME NEW a \in Authorities, Work(a) PROVE EvidenceInv'
  <2>1. ASSUME NEW w, NEW b, NEW e, registerWorker(w, b, e, a) PROVE EvidenceInv'
    BY <2>1, EvidenceFrame DEF registerWorker
  <2> QED BY <1>6, <2>1, MarkWorkerDeadEvidence DEF Work
<1>7. ASSUME NEW a \in Authorities, Reserve(a) PROVE EvidenceInv'
  BY <1>7, EvidenceFrame
  DEF Reserve, requestReservation, commitReservation, releaseReservation,
      OnReservation
<1> QED BY <1>1, <1>2, <1>3, <1>4, <1>5, <1>6, <1>7 DEF Next

\* It holds of every behaviour.
LEMMA AlwaysEvidence == Spec => []EvidenceInv
<1>1. Init => EvidenceInv
  BY DEF Init, NoEvidence, EvidenceInv, CurrentEvidenceIsFresh, CurrentEvidenceInUse
<1>2. IInv /\ EvidenceInv /\ [Next]_vars => EvidenceInv'
  BY NextEvidence DEF IInv
<1> QED BY <1>1, <1>2, Inductive, PTL DEF Spec

\* Evidence that counts as CURRENT is of this epoch, of this generation of its
\* region and, if the backing provider gave it, of its current generation.
THEOREM EvidenceIsFresh == Spec => []CurrentEvidenceIsFresh
<1>1. EvidenceInv => CurrentEvidenceIsFresh
  BY DEF EvidenceInv
<1> QED BY <1>1, AlwaysEvidence, PTL

\* What evaluateRegionEligibility accepts, the ledger and commitReservation
\* accept too: no later check of the same request refuses an eligible region.
THEOREM EligibleIsServed == Spec => []EligibleServes
<1>1. ASSUME IInv, EvidenceInv PROVE EligibleServes
  <2> SUFFICES ASSUME NEW q \in Requests, NEW r \in EligibleRegions(q)
               PROVE  /\ CanMove(ledger[r], "free", "reserved", q.requiredBytes)
                      /\ evidence[r].latest.epoch = epoch
                      /\ evidence[r].latest.regionGeneration = RegionGeneration(r)
                      /\ RegionCommits(NewReservation(q, r,
                           [epoch |-> epoch, worker |-> Null, boot |-> Null]))
    BY DEF EligibleServes
  <2>1. /\ r \in Regions
        /\ regions[r].lifecycle \in {"ONLINE", "DEGRADED"}
        /\ evidence[r].has /\ evidence[r].status = "CURRENT"
        /\ q.requiredBytes <= ledger[r]["free"]
    BY <1>1, EligibleInService DEF IInv
  <2>2. CanMove(ledger[r], "free", "reserved", q.requiredBytes)
    <3>1. ledger[r] \in Ledgers /\ invariant(ledger[r]) /\ q.requiredBytes \in Nat
      BY <1>1, <2>1, MessageAssumption, MaxWordAssumption
      DEF IInv, TypeOK, LedgerClosed, Words
    <3> QED BY <2>1, <3>1, MoveExact DEF Buckets
  <2>3. /\ evidence[r].latest.epoch = epoch
        /\ evidence[r].latest.regionGeneration = RegionGeneration(r)
    BY <1>1, <2>1 DEF EvidenceInv, CurrentEvidenceIsFresh
  <2>4. RegionCommits(NewReservation(q, r,
          [epoch |-> epoch, worker |-> Null, boot |-> Null]))
    BY <2>1 DEF RegionCommits, NewReservation
  <2> QED BY <2>2, <2>3, <2>4
<1> QED BY <1>1, Inductive, AlwaysEvidence, PTL

-----------------------------------------------------------------------------
(***************************************************************************)
(* All of it together, for the modules that put the fabric into a process.  *)
(***************************************************************************)
FabricInv == BoundInv /\ AuditAccounting /\ EvidenceInv

\* A fabric in which nothing has been reserved or observed yet: a new one, one
\* that load has restored, the seeded one of the coordinator.
Fresh ==
  /\ TypeOK
  /\ reservations = [i \in ReservationIds |-> NoReservation]
  /\ evidence = [r \in Regions |-> NoEvidence]
  /\ \A r \in Regions :
       ledger[r] = NewLedger(IF r \in KnownRegions
                             THEN regions[r].descriptor.totalCapacityBytes ELSE 0)

\* It is sound, whatever has been registered.
LEMMA FreshIsSound == Fresh => FabricInv
<1> SUFFICES ASSUME Fresh PROVE FabricInv
  OBVIOUS
<1> DEFINE n(r) == IF r \in KnownRegions
                   THEN regions[r].descriptor.totalCapacityBytes ELSE 0
<1>1. \A i \in ReservationIds : reservations[i].state = "ABSENT"
  BY DEF Fresh, NoReservation
<1>2. \A r \in Regions :
        n(r) \in Words /\ ledger[r] = NewLedger(n(r)) /\ invariant(ledger[r])
  <2> SUFFICES ASSUME NEW r \in Regions
               PROVE  n(r) \in Words /\ ledger[r] = NewLedger(n(r))
                      /\ invariant(ledger[r])
    OBVIOUS
  <2>1. ledger[r] = NewLedger(n(r))
    BY DEF Fresh
  <2>2. n(r) \in Words
    BY KnownRegionType, DescriptorAssumption, MaxWordAssumption DEF Fresh, Words
  <2> HIDE DEF n
  <2> QED BY <2>1, <2>2, NewLedgerClosed
<1>3. IInv
  <2>1. \A r \in KnownRegions :
          ledger[r]["total"] = regions[r].descriptor.totalCapacityBytes
    BY <1>2 DEF NewLedger, Counters, Buckets, KnownRegions
  <2> HIDE DEF n
  <2> QED BY <1>2, <2>1 DEF Fresh, IInv, LedgerClosed
<1>4. AuditAccounting
  <2> SUFFICES ASSUME NEW r \in Regions PROVE Audited(reservations, ledger[r], r)
    BY AuditedIs
  <2>1. /\ HoldingOf(reservations, r, {"RESERVED"}) = {}
        /\ HoldingOf(reservations, r, Promised) = {}
    BY <1>1 DEF HoldingOf, Promised
  <2>2. ledger[r]["reserved"] = 0 /\ ledger[r]["committed"] = 0
    BY <1>2 DEF NewLedger, Counters, Buckets
  <2> QED BY <2>1, <2>2, BytesEmpty DEF Audited
<1>5. LiveReservationCurrent /\ SettledHoldsNothing /\ NoReservationOfDeadBoot
  BY <1>1 DEF LiveReservationCurrent, SettledHoldsNothing,
              NoReservationOfDeadBoot, Live, Promised
<1>6. EvidenceInv
  BY DEF Fresh, NoEvidence, EvidenceInv, CurrentEvidenceIsFresh,
         CurrentEvidenceInUse
<1> QED BY <1>3, <1>4, <1>5, <1>6 DEF FabricInv, BoundInv

\* Every call on the fabric keeps it.
LEMMA NextFabric == FabricInv /\ [Next]_vars => FabricInv'
  BY NextBound, NextAudit, NextEvidence DEF FabricInv, BoundInv, IInv

\* A new fabric is fresh.
LEMMA InitFresh == Init => Fresh
  BY InitIInv DEF IInv, Init, Fresh, KnownRegions, RegionGeneration, NoRegion,
                  NoDescriptor

-----------------------------------------------------------------------------
(***************************************************************************)
(* The loops that fence. A turn moves the bytes of one reservation; after   *)
(* the turns for a set S the loop is where fencing S at once leads, because *)
(* the audit leaves in the buckets what the turns to come take out.         *)
(***************************************************************************)
FenceRun == INSTANCE LoopProofs WITH Step <- fence
EpochRun == INSTANCE LoopProofs WITH Step <- fenceForEpoch
DrainRun == INSTANCE LoopProofs WITH Step <- releaseForDrain

\* What the two moves of a fence leave, when the bytes are there.
LEMMA FencedForm ==
  ASSUME NEW l \in Ledgers, invariant(l), NEW m \in Nat, NEW n \in Nat,
         m <= l["reserved"], n <= l["committed"]
  PROVE  LET j == fenceCommitted(fenceReserved(l, m), n) IN
         /\ j \in Ledgers /\ invariant(j)
         /\ j["reserved"] = l["reserved"] - m
         /\ j["committed"] = l["committed"] - n
         /\ j["unavailable"] = l["unavailable"] + m + n
         /\ \A c \in Counters \ {"reserved", "committed", "unavailable"} : j[c] = l[c]
<1> DEFINE k == Move(l, "reserved", "unavailable", m)
           j == Move(k, "committed", "unavailable", n)
<1>1. /\ {"reserved", "committed", "unavailable"} \subseteq Buckets
      /\ {"reserved", "committed", "unavailable"} \subseteq Counters
      /\ "reserved" # "unavailable" /\ "committed" # "unavailable"
      /\ "reserved" # "committed"
  BY DEF Buckets, Counters
<1>2. /\ k \in Ledgers /\ invariant(k)
      /\ \A c \in Counters \ {"reserved", "unavailable"} : k[c] = l[c]
  BY <1>1, MoveFrame, MoveClosed
<1>3. k["reserved"] = l["reserved"] - m /\ k["unavailable"] = l["unavailable"] + m
  BY <1>1, MoveExact
<1>4. k["committed"] = l["committed"]
  BY <1>1, <1>2
<1> HIDE DEF k
<1>5. /\ j \in Ledgers /\ invariant(j)
      /\ \A c \in Counters \ {"committed", "unavailable"} : j[c] = k[c]
  BY <1>1, <1>2, MoveFrame, MoveClosed
<1>6. j["committed"] = k["committed"] - n /\ j["unavailable"] = k["unavailable"] + n
  BY <1>1, <1>2, <1>4, MoveExact
<1>7. j["reserved"] = k["reserved"]
  BY <1>1, <1>5
<1>8. \A c \in Counters \ {"reserved", "committed", "unavailable"} : j[c] = l[c]
  BY <1>2, <1>5
<1>9. fenceCommitted(fenceReserved(l, m), n) = j
  BY DEF fenceReserved, fenceCommitted, k
<1> HIDE DEF j
<1> QED BY <1>3, <1>4, <1>5, <1>6, <1>7, <1>8, <1>9

\* A ledger is what its counters are.
LEMMA SameLedger ==
  ASSUME NEW j \in Ledgers, NEW l \in Ledgers,
         j["reserved"] = l["reserved"], j["committed"] = l["committed"],
         j["unavailable"] = l["unavailable"],
         \A c \in Counters \ {"reserved", "committed", "unavailable"} : j[c] = l[c]
  PROVE  j = l
<1>1. \A c \in Counters : j[c] = l[c]
  OBVIOUS
<1> QED BY <1>1 DEF Ledgers

\* The bytes of a set of reservations that a region holds are in its bucket.
LEMMA HeldBytes ==
  ASSUME TypeOK, AuditAccounting, NEW r \in Regions, NEW S \in SUBSET ReservationIds
  PROVE  /\ Bytes(S \cap Holding(r, {"RESERVED"})) \in Nat
         /\ Bytes(S \cap Holding(r, Promised)) \in Nat
         /\ Bytes(S \cap Holding(r, {"RESERVED"})) <= ledger[r]["reserved"]
         /\ Bytes(S \cap Holding(r, Promised)) <= ledger[r]["committed"]
<1> DEFINE res == Holding(r, {"RESERVED"})
           com == Holding(r, Promised)
<1>1. res \in SUBSET ReservationIds /\ com \in SUBSET ReservationIds
  BY DEF Holding
<1>2. \A T : Bytes(T) = BytesOf(reservations, T)
  BY AuditedIs
<1>3. ledger[r]["reserved"] = Bytes(res) /\ ledger[r]["committed"] = Bytes(com)
  BY DEF AuditAccounting
<1> HIDE DEF res, com
<1>4. /\ Bytes(res \ S) \in Nat /\ Bytes(S \cap res) \in Nat
      /\ Bytes(res) = Bytes(res \ S) + Bytes(S \cap res)
  BY <1>1, <1>2, BytesRest
<1>5. /\ Bytes(com \ S) \in Nat /\ Bytes(S \cap com) \in Nat
      /\ Bytes(com) = Bytes(com \ S) + Bytes(S \cap com)
  BY <1>1, <1>2, BytesRest
<1>6. Bytes(S \cap res) <= ledger[r]["reserved"]
  BY <1>3, <1>4
<1>7. Bytes(S \cap com) <= ledger[r]["committed"]
  BY <1>3, <1>5
<1> QED BY <1>4, <1>5, <1>6, <1>7 DEF res, com

\* One reservation more of those that hold bytes is its bytes more.
LEMMA OneMore ==
  ASSUME TypeOK, NEW S \in SUBSET ReservationIds, NEW i \in ReservationIds, i \notin S,
         NEW H \in SUBSET ReservationIds
  PROVE  Bytes((S \cup {i}) \cap H) =
           IF i \in H THEN Bytes(S \cap H) + reservations[i].bytes ELSE Bytes(S \cap H)
<1>1. CASE i \in H
  <2>1. (S \cup {i}) \cap H = (S \cap H) \cup {i} /\ (S \cap H) \cap {i} = {}
    BY <1>1
  <2>2. S \cap H \in SUBSET ReservationIds /\ {i} \in SUBSET ReservationIds
    OBVIOUS
  <2>3. BytesOf(reservations, (S \cap H) \cup {i})
          = BytesOf(reservations, S \cap H) + BytesOf(reservations, {i})
    BY <2>1, <2>2, BytesAdd
  <2>4. reservations[i].bytes \in Words
    BY DEF TypeOK, Reservations
  <2>5. BytesOf(reservations, {i}) = reservations[i].bytes
    BY <2>4, BytesSingle
  <2> QED BY <1>1, <2>1, <2>3, <2>5, AuditedIs
<1>2. CASE i \notin H
  <2>1. (S \cup {i}) \cap H = S \cap H
    BY <1>2
  <2> QED BY <1>2, <2>1
<1> QED BY <1>1, <1>2

\* Fencing one reservation more takes its bytes out of its region's ledger, and the
\* ledger does not refuse.
LEMMA FencedMore ==
  ASSUME BoundInv, AuditAccounting, NEW S \in SUBSET ReservationIds,
         NEW i \in ReservationIds, i \notin S, NEW r \in Regions
  PROVE  LET v == reservations[i]
             l == FencedLedger(ledger[r], S, r)
             k == FencedLedger(ledger[r], S \cup {i}, r)
         IN  IF v.state \in Live /\ v.region = r
             THEN /\ CanMove(l, HeldIn(v), "unavailable", v.bytes)
                  /\ Move(l, HeldIn(v), "unavailable", v.bytes) = k
             ELSE k = l
<1> DEFINE v == reservations[i]
           l == FencedLedger(ledger[r], S, r)
           k == FencedLedger(ledger[r], S \cup {i}, r)
           res == Holding(r, {"RESERVED"})
           com == Holding(r, Promised)
           m == Bytes(S \cap res)
           n == Bytes(S \cap com)
           x == Bytes((S \cup {i}) \cap res)
           y == Bytes((S \cup {i}) \cap com)
<1>1. TypeOK /\ ledger[r] \in Ledgers /\ invariant(ledger[r])
  BY DEF BoundInv, IInv, TypeOK, LedgerClosed
<1>2. res \in SUBSET ReservationIds /\ com \in SUBSET ReservationIds
      /\ S \cup {i} \in SUBSET ReservationIds
  BY DEF Holding
<1>3. /\ i \in res <=> v.region = r /\ v.state = "RESERVED"
      /\ i \in com <=> v.region = r /\ v.state \in Promised
  BY DEF Holding
<1>4. /\ x = IF i \in res THEN m + v.bytes ELSE m
      /\ y = IF i \in com THEN n + v.bytes ELSE n
  <2> HIDE DEF res, com
  <2>1. x = IF i \in res THEN m + v.bytes ELSE m
    BY <1>1, <1>2, OneMore
  <2>2. y = IF i \in com THEN n + v.bytes ELSE n
    BY <1>1, <1>2, OneMore
  <2> QED BY <2>1, <2>2
<1>5. /\ m \in Nat /\ n \in Nat /\ x \in Nat /\ y \in Nat
      /\ m <= ledger[r]["reserved"] /\ n <= ledger[r]["committed"]
      /\ x <= ledger[r]["reserved"] /\ y <= ledger[r]["committed"]
  BY <1>1, <1>2, HeldBytes
<1>6. v.bytes \in Nat
  BY <1>1, MaxWordAssumption DEF TypeOK, Reservations, Words
<1>7. /\ l = fenceCommitted(fenceReserved(ledger[r], m), n)
      /\ k = fenceCommitted(fenceReserved(ledger[r], x), y)
  BY DEF FencedLedger
<1>8. "RESERVED" \notin Promised /\ Live = {"RESERVED"} \cup Promised
  BY DEF Live, Promised
<1> HIDE DEF v, l, k, res, com, m, n, x, y
<1>9. /\ l \in Ledgers /\ invariant(l)
      /\ l["reserved"] = ledger[r]["reserved"] - m
      /\ l["committed"] = ledger[r]["committed"] - n
      /\ l["unavailable"] = ledger[r]["unavailable"] + m + n
      /\ \A c \in Counters \ {"reserved", "committed", "unavailable"} :
           l[c] = ledger[r][c]
  BY <1>1, <1>5, <1>7, FencedForm
<1>10. /\ k \in Ledgers /\ invariant(k)
       /\ k["reserved"] = ledger[r]["reserved"] - x
       /\ k["committed"] = ledger[r]["committed"] - y
       /\ k["unavailable"] = ledger[r]["unavailable"] + x + y
       /\ \A c \in Counters \ {"reserved", "committed", "unavailable"} :
            k[c] = ledger[r][c]
  BY <1>1, <1>5, <1>7, FencedForm
<1>11. /\ ledger[r]["reserved"] \in Nat /\ ledger[r]["committed"] \in Nat
       /\ ledger[r]["unavailable"] \in Nat
  BY <1>1, MaxWordAssumption DEF Ledgers, Words, Counters, Buckets
<1>12. /\ {"reserved", "committed", "unavailable"} \subseteq Buckets
       /\ {"reserved", "committed", "unavailable"} \subseteq Counters
       /\ "reserved" # "unavailable" /\ "committed" # "unavailable"
       /\ "reserved" # "committed"
  BY DEF Buckets, Counters
<1>13. CASE v.state = "RESERVED" /\ v.region = r
  <2> DEFINE j == Move(l, "reserved", "unavailable", v.bytes)
  <2>1. x = m + v.bytes /\ y = n
    BY <1>3, <1>4, <1>8, <1>13
  <2>2. v.bytes <= l["reserved"]
    BY <1>5, <1>6, <1>9, <1>11, <2>1
  <2>3. /\ CanMove(l, "reserved", "unavailable", v.bytes)
        /\ j["reserved"] = l["reserved"] - v.bytes
        /\ j["unavailable"] = l["unavailable"] + v.bytes
    BY <1>6, <1>9, <1>12, <2>2, MoveExact
  <2>4. /\ j \in Ledgers
        /\ \A c \in Counters \ {"reserved", "unavailable"} : j[c] = l[c]
    BY <1>6, <1>9, <1>12, MoveFrame
  <2> HIDE DEF j
  <2>5. j["reserved"] = k["reserved"]
    BY <1>5, <1>6, <1>9, <1>10, <1>11, <2>1, <2>3
  <2>6. j["unavailable"] = k["unavailable"]
    BY <1>5, <1>6, <1>9, <1>10, <1>11, <2>1, <2>3
  <2>7. j["committed"] = k["committed"]
    BY <1>9, <1>10, <1>12, <2>1, <2>4
  <2>8. \A c \in Counters \ {"reserved", "committed", "unavailable"} : j[c] = k[c]
    BY <1>9, <1>10, <2>4
  <2>9. j = k
    BY <1>10, <2>4, <2>5, <2>6, <2>7, <2>8, SameLedger
  <2>10. HeldIn(v) = "reserved" /\ v.state \in Live
    BY <1>8, <1>13 DEF HeldIn
  <2> QED BY <1>13, <2>3, <2>9, <2>10 DEF j, l, k, v
<1>14. CASE v.state \in Promised /\ v.region = r
  <2> DEFINE j == Move(l, "committed", "unavailable", v.bytes)
  <2>1. x = m /\ y = n + v.bytes
    BY <1>3, <1>4, <1>8, <1>14
  <2>2. v.bytes <= l["committed"]
    BY <1>5, <1>6, <1>9, <1>11, <2>1
  <2>3. /\ CanMove(l, "committed", "unavailable", v.bytes)
        /\ j["committed"] = l["committed"] - v.bytes
        /\ j["unavailable"] = l["unavailable"] + v.bytes
    BY <1>6, <1>9, <1>12, <2>2, MoveExact
  <2>4. /\ j \in Ledgers
        /\ \A c \in Counters \ {"committed", "unavailable"} : j[c] = l[c]
    BY <1>6, <1>9, <1>12, MoveFrame
  <2> HIDE DEF j
  <2>5. j["committed"] = k["committed"]
    BY <1>5, <1>6, <1>9, <1>10, <1>11, <2>1, <2>3
  <2>6. j["unavailable"] = k["unavailable"]
    BY <1>5, <1>6, <1>9, <1>10, <1>11, <2>1, <2>3
  <2>7. j["reserved"] = k["reserved"]
    BY <1>9, <1>10, <1>12, <2>1, <2>4
  <2>8. \A c \in Counters \ {"reserved", "committed", "unavailable"} : j[c] = k[c]
    BY <1>9, <1>10, <2>4
  <2>9. j = k
    BY <1>10, <2>4, <2>5, <2>6, <2>7, <2>8, SameLedger
  <2>10. HeldIn(v) = "committed" /\ v.state \in Live
    BY <1>8, <1>14 DEF HeldIn
  <2> QED BY <1>14, <2>3, <2>9, <2>10 DEF j, l, k, v
<1>15. CASE ~(v.state \in Live /\ v.region = r)
  <2>1. x = m /\ y = n
    BY <1>3, <1>4, <1>8, <1>15
  <2>2. k = l
    BY <1>7, <2>1
  <2> QED BY <1>15, <2>2 DEF l, k, v
<1> QED BY <1>8, <1>13, <1>14, <1>15

\* One turn of a loop that has fenced S, up to the state it gives the reservation.
LEMMA FenceTurn ==
  ASSUME BoundInv, AuditAccounting, NEW S \in SUBSET ReservationIds,
         NEW i \in ReservationIds, i \notin S, NEW outcome, Ends(outcome)
  PROVE  LET v  == reservations[i]
             st == FencedAtOnce(S, outcome)
         IN  /\ st.reservations[i] = v
             /\ FenceMoves(st.ledger, v)
             /\ [reservations |-> [st.reservations EXCEPT ![i].state = outcome[@]],
                 ledger |-> FenceBytes(st.ledger, v)] = FencedAtOnce(S \cup {i}, outcome)
<1> DEFINE v  == reservations[i]
           M  == Moved(S, outcome)
           L  == [r \in Regions |-> FencedLedger(ledger[r], S, r)]
           K  == [r \in Regions |-> FencedLedger(ledger[r], S \cup {i}, r)]
<1>1. M[i] = v
  BY DEF Moved
<1>2. [M EXCEPT ![i].state = outcome[@]] = Moved(S \cup {i}, outcome)
  BY DEF Moved
<1>3. v.state \in Live => v.region \in Regions
  BY DEF BoundInv, LiveReservationCurrent, KnownRegions
<1>4. v.state \in Live => CanMove(L[v.region], HeldIn(v), "unavailable", v.bytes)
  <2> SUFFICES ASSUME v.state \in Live
               PROVE  CanMove(L[v.region], HeldIn(v), "unavailable", v.bytes)
    OBVIOUS
  <2>1. CanMove(FencedLedger(ledger[v.region], S, v.region), HeldIn(v),
                "unavailable", v.bytes)
    BY <1>3, FencedMore
  <2>2. L[v.region] = FencedLedger(ledger[v.region], S, v.region)
    BY <1>3
  <2> QED BY <2>1, <2>2
<1>5. FenceBytes(L, v) = K
  <2>1. CASE v.state \notin Live
    <3>1. \A r \in Regions : FencedLedger(ledger[r], S \cup {i}, r)
                              = FencedLedger(ledger[r], S, r)
      BY <2>1, FencedMore
    <3>2. L = K
      BY <3>1
    <3> QED BY <2>1, <3>2 DEF FenceBytes
  <2>2. CASE v.state \in Live
    <3>1. FenceBytes(L, v) =
            [L EXCEPT ![v.region] = Move(@, HeldIn(v), "unavailable", v.bytes)]
      BY <2>2 DEF FenceBytes
    <3>2. ASSUME NEW r \in Regions
          PROVE  K[r] = IF r = v.region
                        THEN Move(L[r], HeldIn(v), "unavailable", v.bytes) ELSE L[r]
      <4>1. /\ L[r] = FencedLedger(ledger[r], S, r)
            /\ K[r] = FencedLedger(ledger[r], S \cup {i}, r)
        OBVIOUS
      <4>2. IF v.state \in Live /\ v.region = r
            THEN Move(FencedLedger(ledger[r], S, r), HeldIn(v), "unavailable", v.bytes)
                   = FencedLedger(ledger[r], S \cup {i}, r)
            ELSE FencedLedger(ledger[r], S \cup {i}, r) = FencedLedger(ledger[r], S, r)
        BY FencedMore
      <4> HIDE DEF L, K
      <4> QED BY <2>2, <4>1, <4>2
    <3>3. [L EXCEPT ![v.region] = Move(@, HeldIn(v), "unavailable", v.bytes)]
            = [r \in Regions |-> IF r = v.region
                 THEN Move(L[r], HeldIn(v), "unavailable", v.bytes) ELSE L[r]]
      BY <1>3, <2>2
    <3>4. K = [r \in Regions |-> K[r]]
      OBVIOUS
    <3> HIDE DEF L, K
    <3>5. K = [r \in Regions |-> IF r = v.region
                 THEN Move(L[r], HeldIn(v), "unavailable", v.bytes) ELSE L[r]]
      BY <3>2, <3>4
    <3> QED BY <3>1, <3>3, <3>5
  <2> QED BY <2>1, <2>2
<1>6. /\ FencedAtOnce(S, outcome).reservations = M /\ FencedAtOnce(S, outcome).ledger = L
      /\ FencedAtOnce(S \cup {i}, outcome)
           = [reservations |-> Moved(S \cup {i}, outcome), ledger |-> K]
  BY DEF FencedAtOnce
<1> HIDE DEF M, L, K
<1>7. FenceMoves(L, v)
  BY <1>4 DEF FenceMoves
<1> QED BY <1>1, <1>2, <1>5, <1>6, <1>7

\* Nothing is fenced yet.
LEMMA FencedNone ==
  ASSUME BoundInv, AuditAccounting, NEW outcome
  PROVE  FencedAtOnce({}, outcome) = [reservations |-> reservations, ledger |-> ledger]
<1>1. TypeOK /\ \A r \in Regions : ledger[r] \in Ledgers /\ invariant(ledger[r])
  BY DEF BoundInv, IInv, TypeOK, LedgerClosed
<1>2. ledger = [r \in Regions |-> ledger[r]]
  BY <1>1 DEF TypeOK
<1>3. reservations = [i \in ReservationIds |-> reservations[i]]
  BY <1>1 DEF TypeOK
<1>4. ASSUME NEW r \in Regions
      PROVE  FencedLedger(ledger[r], {}, r) = ledger[r]
  <2> DEFINE j == fenceCommitted(fenceReserved(ledger[r], 0), 0)
  <2>1. Bytes({}) = 0
    BY AuditedIs, BytesEmpty
  <2>2. \A H : {} \cap H = {}
    OBVIOUS
  <2>3. FencedLedger(ledger[r], {}, r) = j
    BY <2>1, <2>2 DEF FencedLedger
  <2>4. /\ ledger[r]["reserved"] \in Nat /\ ledger[r]["committed"] \in Nat
        /\ ledger[r]["unavailable"] \in Nat
    BY <1>1, MaxWordAssumption DEF Ledgers, Words, Counters, Buckets
  <2>5. 0 \in Nat /\ 0 <= ledger[r]["reserved"] /\ 0 <= ledger[r]["committed"]
    BY <2>4
  <2>6. /\ j \in Ledgers
        /\ j["reserved"] = ledger[r]["reserved"] - 0
        /\ j["committed"] = ledger[r]["committed"] - 0
        /\ j["unavailable"] = ledger[r]["unavailable"] + 0 + 0
        /\ \A c \in Counters \ {"reserved", "committed", "unavailable"} :
             j[c] = ledger[r][c]
    BY <1>1, <2>5, FencedForm
  <2> HIDE DEF j
  <2>7. /\ j["reserved"] = ledger[r]["reserved"]
        /\ j["committed"] = ledger[r]["committed"]
        /\ j["unavailable"] = ledger[r]["unavailable"]
    BY <2>4, <2>6
  <2> QED BY <1>1, <2>3, <2>6, <2>7, SameLedger
<1>5. [r \in Regions |-> FencedLedger(ledger[r], {}, r)] = ledger
  BY <1>2, <1>4
<1>6. Moved({}, outcome) = reservations
  BY <1>3 DEF Moved
<1> QED BY <1>5, <1>6 DEF FencedAtOnce

\* One turn of Impl::fence: no move is refused.
LEMMA FenceStep ==
  ASSUME BoundInv, AuditAccounting, NEW S \in SUBSET ReservationIds,
         NEW i \in ReservationIds, i \notin S
  PROVE  fence(FencedAtOnce(S, FenceOutcome), i) = FencedAtOnce(S \cup {i}, FenceOutcome)
<1> DEFINE v  == reservations[i]
           st == FencedAtOnce(S, FenceOutcome)
<1>1. /\ st.reservations[i] = v
      /\ FenceMoves(st.ledger, v)
      /\ [reservations |-> [st.reservations EXCEPT ![i].state = FenceOutcome[@]],
          ledger |-> FenceBytes(st.ledger, v)] = FencedAtOnce(S \cup {i}, FenceOutcome)
  BY FenceTurn, OutcomesEnd
<1> HIDE DEF v, st
<1>2. fence(st, i) = FencedAtOnce(S \cup {i}, FenceOutcome)
  BY <1>1, Zenon DEF fence
<1> QED BY <1>2 DEF st

\* One turn of setEpoch's loop.
LEMMA EpochStep ==
  ASSUME BoundInv, AuditAccounting, NEW S \in SUBSET ReservationIds,
         NEW i \in ReservationIds, i \notin S
  PROVE  fenceForEpoch(FencedAtOnce(S, EpochOutcome), i)
           = FencedAtOnce(S \cup {i}, EpochOutcome)
<1> DEFINE v  == reservations[i]
           st == FencedAtOnce(S, EpochOutcome)
<1>1. /\ st.reservations[i] = v
      /\ FenceMoves(st.ledger, v)
      /\ [reservations |-> [st.reservations EXCEPT ![i].state = EpochOutcome[@]],
          ledger |-> FenceBytes(st.ledger, v)] = FencedAtOnce(S \cup {i}, EpochOutcome)
  BY FenceTurn, OutcomesEnd
<1> HIDE DEF v, st
<1>2. fenceForEpoch(st, i) = FencedAtOnce(S \cup {i}, EpochOutcome)
  BY <1>1, Zenon DEF fenceForEpoch
<1> QED BY <1>2 DEF st

\* An order of a set of reservations names each of them once.
LEMMA OrderOfAll ==
  ASSUME NEW S \in SUBSET ReservationIds, NEW order \in SetToSeqs(S)
  PROVE  \E n \in Nat : /\ DOMAIN order = 1..n
                        /\ \A k \in 1..n : order[k] \in S
                        /\ \A j, k \in 1..n : j # k => order[j] # order[k]
                        /\ {order[j] : j \in 1..n} = S
<1> DEFINE n == Cardinality(S)
<1>1. IsFiniteSet(ReservationIds)
  BY FS_Interval, IdAssumption DEF ReservationIds
<1>2. IsFiniteSet(S) /\ n \in Nat
  BY <1>1, FS_Subset, FS_CardinalityType
<1>3. /\ order \in [1..n -> S]
      /\ \A j, k \in 1..n : j # k => order[j] # order[k]
  BY DEF SetToSeqs
<1>4. order \in Injection(1..n, S)
  BY <1>3 DEF Injection, IsInjective
<1>5. Cardinality(1..n) = n
  <2> HIDE DEF n
  <2> QED BY <1>2, FS_Interval
<1>6. order \in Surjection(1..n, S)
  BY <1>2, <1>4, <1>5, FS_Injection
<1>7. \A i \in S : \E j \in 1..n : order[j] = i
  BY <1>6 DEF Surjection
<1> QED BY <1>2, <1>3, <1>7

\* The reservations of the first k turns.
Turns(order, k) == {order[j] : j \in 1..k}

\* The next turn is for a reservation that had none.
LEMMA NextTurn ==
  ASSUME NEW S \in SUBSET ReservationIds, NEW order, NEW n \in Nat,
         \A k \in 1..n : order[k] \in S,
         \A j, k \in 1..n : j # k => order[j] # order[k],
         NEW k \in 1..n
  PROVE  /\ Turns(order, k - 1) \in SUBSET ReservationIds
         /\ order[k] \in ReservationIds /\ order[k] \notin Turns(order, k - 1)
         /\ Turns(order, k) = Turns(order, k - 1) \cup {order[k]}
<1>1. \A j \in 1..(k - 1) : j \in 1..n /\ j # k /\ j \in 1..k
  OBVIOUS
<1>2. \A j \in 1..k : j = k \/ j \in 1..(k - 1)
  OBVIOUS
<1>3. k \in 1..k
  OBVIOUS
<1> QED BY <1>1, <1>2, <1>3 DEF Turns

\* The loop of Impl::fence.
LEMMA FenceLoopEnds ==
  ASSUME BoundInv, AuditAccounting, NEW S \in SUBSET ReservationIds,
         NEW order \in SetToSeqs(S)
  PROVE  FoldLeft(fence, [reservations |-> reservations, ledger |-> ledger], order)
           = FencedAtOnce(S, FenceOutcome)
<1> DEFINE start == [reservations |-> reservations, ledger |-> ledger]
<1>1. PICK n \in Nat : /\ DOMAIN order = 1..n
                       /\ \A k \in 1..n : order[k] \in S
                       /\ \A j, k \in 1..n : j # k => order[j] # order[k]
                       /\ {order[j] : j \in 1..n} = S
  BY OrderOfAll
<1> DEFINE v == [k \in 0..n |-> FencedAtOnce(Turns(order, k), FenceOutcome)]
<1>2. v[0] = start
  <2>1. Turns(order, 0) = {} /\ 0 \in 0..n
    BY DEF Turns
  <2> QED BY <2>1, FencedNone
<1>3. ASSUME NEW k \in 1..n
      PROVE  v[k] = fence(v[k - 1], order[k])
  <2>1. /\ Turns(order, k - 1) \in SUBSET ReservationIds
        /\ order[k] \in ReservationIds /\ order[k] \notin Turns(order, k - 1)
        /\ Turns(order, k) = Turns(order, k - 1) \cup {order[k]}
    BY <1>1, NextTurn
  <2>2. k \in 0..n /\ k - 1 \in 0..n
    OBVIOUS
  <2>3. fence(FencedAtOnce(Turns(order, k - 1), FenceOutcome), order[k])
          = FencedAtOnce(Turns(order, k), FenceOutcome)
    BY <2>1, FenceStep
  <2> QED BY <2>2, <2>3
<1>4. v[n] = FencedAtOnce(S, FenceOutcome)
  <2>1. Turns(order, n) = S
    BY <1>1, Zenon DEF Turns
  <2>2. n \in 0..n
    OBVIOUS
  <2>3. v[n] = FencedAtOnce(Turns(order, n), FenceOutcome)
    BY <2>2, Zenon
  <2> QED BY <2>1, <2>3, Zenon
<1> HIDE DEF v, start
<1>5. FenceRun!IsRun(start, order, n, v)
  BY <1>1, <1>2, <1>3, Zenon DEF FenceRun!IsRun, FenceRun!RunsTo
<1>6. FenceRun!Loop(start, order) = v[n]
  BY <1>1, <1>5, FenceRun!RunIsFold, Zenon
<1>7. FenceRun!Loop(start, order) = FoldLeft(fence, start, order)
  BY Zenon DEF FenceRun!Loop, FenceRun!FoldLeft, FenceRun!MapThenFoldSet,
               FenceRun!Max, FoldLeft, MapThenFoldSet, Max
<1> QED BY <1>4, <1>6, <1>7, Zenon DEF start

\* The loop of setEpoch.
LEMMA EpochLoopEnds ==
  ASSUME BoundInv, AuditAccounting, NEW S \in SUBSET ReservationIds,
         NEW order \in SetToSeqs(S)
  PROVE  FoldLeft(fenceForEpoch, [reservations |-> reservations, ledger |-> ledger],
                  order) = FencedAtOnce(S, EpochOutcome)
<1> DEFINE start == [reservations |-> reservations, ledger |-> ledger]
<1>1. PICK n \in Nat : /\ DOMAIN order = 1..n
                       /\ \A k \in 1..n : order[k] \in S
                       /\ \A j, k \in 1..n : j # k => order[j] # order[k]
                       /\ {order[j] : j \in 1..n} = S
  BY OrderOfAll
<1> DEFINE v == [k \in 0..n |-> FencedAtOnce(Turns(order, k), EpochOutcome)]
<1>2. v[0] = start
  <2>1. Turns(order, 0) = {} /\ 0 \in 0..n
    BY DEF Turns
  <2> QED BY <2>1, FencedNone
<1>3. ASSUME NEW k \in 1..n
      PROVE  v[k] = fenceForEpoch(v[k - 1], order[k])
  <2>1. /\ Turns(order, k - 1) \in SUBSET ReservationIds
        /\ order[k] \in ReservationIds /\ order[k] \notin Turns(order, k - 1)
        /\ Turns(order, k) = Turns(order, k - 1) \cup {order[k]}
    BY <1>1, NextTurn
  <2>2. k \in 0..n /\ k - 1 \in 0..n
    OBVIOUS
  <2>3. fenceForEpoch(FencedAtOnce(Turns(order, k - 1), EpochOutcome), order[k])
          = FencedAtOnce(Turns(order, k), EpochOutcome)
    BY <2>1, EpochStep
  <2> QED BY <2>2, <2>3
<1>4. v[n] = FencedAtOnce(S, EpochOutcome)
  <2>1. Turns(order, n) = S
    BY <1>1, Zenon DEF Turns
  <2>2. n \in 0..n
    OBVIOUS
  <2>3. v[n] = FencedAtOnce(Turns(order, n), EpochOutcome)
    BY <2>2, Zenon
  <2> QED BY <2>1, <2>3, Zenon
<1> HIDE DEF v, start
<1>5. EpochRun!IsRun(start, order, n, v)
  BY <1>1, <1>2, <1>3, Zenon DEF EpochRun!IsRun, EpochRun!RunsTo
<1>6. EpochRun!Loop(start, order) = v[n]
  BY <1>1, <1>5, EpochRun!RunIsFold, Zenon
<1>7. EpochRun!Loop(start, order) = FoldLeft(fenceForEpoch, start, order)
  BY Zenon DEF EpochRun!Loop, EpochRun!FoldLeft, EpochRun!MapThenFoldSet,
               EpochRun!Max, FoldLeft, MapThenFoldSet, Max
<1> QED BY <1>4, <1>6, <1>7, Zenon DEF start

\* Impl::fence and the loop of setEpoch end, whatever the set and the order, with
\* what the model's calls do at once: no move of theirs is refused, although
\* setEpoch does not look.
THEOREM LoopsFenceAtOnce == Spec => []BulkFenceIsTheLoop
<1>1. BoundInv /\ AuditAccounting => BulkFenceIsTheLoop
  BY FenceLoopEnds, EpochLoopEnds, Zenon DEF BulkFenceIsTheLoop
<1>2. Init => BoundInv /\ AuditAccounting
  BY InitBound, InitAudit
<1>3. BoundInv /\ AuditAccounting /\ [Next]_vars => (BoundInv /\ AuditAccounting)'
  BY NextBound, NextAudit DEF BoundInv, IInv
<1> QED BY <1>1, <1>2, <1>3, PTL DEF Spec

-----------------------------------------------------------------------------
(***************************************************************************)
(* The loop of beginDrain.                                                  *)
(***************************************************************************)
\* Two releases that follow each other are one.
LEMMA ReleaseTwice ==
  ASSUME NEW l \in Ledgers, invariant(l), NEW m \in Nat, NEW n \in Nat,
         m + n <= l["reserved"]
  PROVE  /\ CanMove(release(l, m), "reserved", "free", n)
         /\ release(release(l, m), n) = release(l, m + n)
<1> DEFINE k == Move(l, "reserved", "free", m)
           j == Move(k, "reserved", "free", n)
           o == Move(l, "reserved", "free", m + n)
<1>1. "reserved" \in Buckets /\ "free" \in Buckets /\ "reserved" # "free"
  BY DEF Buckets
<1>2. \A c \in Counters : l[c] \in Nat
  BY MaxWordAssumption DEF Ledgers, Words
<1>3. "reserved" \in Counters /\ "free" \in Counters
  BY <1>1 DEF Counters
<1>4. m <= l["reserved"] /\ m + n \in Nat /\ l["reserved"] \in Nat /\ l["free"] \in Nat
  BY <1>2, <1>3
<1>5. /\ k \in Ledgers /\ invariant(k)
      /\ \A c \in Counters \ {"reserved", "free"} : k[c] = l[c]
  BY <1>1, MoveFrame, MoveClosed
<1>6. k["reserved"] = l["reserved"] - m /\ k["free"] = l["free"] + m
  BY <1>1, <1>4, MoveExact
<1>7. /\ o \in Ledgers
      /\ \A c \in Counters \ {"reserved", "free"} : o[c] = l[c]
  BY <1>1, <1>4, MoveFrame
<1>8. o["reserved"] = l["reserved"] - (m + n) /\ o["free"] = l["free"] + (m + n)
  BY <1>1, <1>4, MoveExact
<1>9. release(l, m) = k /\ release(k, n) = j /\ release(l, m + n) = o
  BY Zenon DEF release
<1> HIDE DEF k, o
<1>10. n <= k["reserved"]
  BY <1>4, <1>6
<1>11. /\ j \in Ledgers
       /\ \A c \in Counters \ {"reserved", "free"} : j[c] = k[c]
  BY <1>1, <1>5, MoveFrame
<1>12. /\ CanMove(k, "reserved", "free", n)
       /\ j["reserved"] = k["reserved"] - n /\ j["free"] = k["free"] + n
  BY <1>1, <1>5, <1>10, MoveExact
<1> HIDE DEF j
<1>13. j["reserved"] = o["reserved"] /\ j["free"] = o["free"]
  BY <1>4, <1>6, <1>8, <1>12
<1>14. \A c \in Counters : j[c] = o[c]
  BY <1>5, <1>7, <1>11, <1>13
<1>15. j = o
  BY <1>7, <1>11, <1>14 DEF Ledgers
<1> QED BY <1>9, <1>12, <1>15

\* One turn of the loop, that has released S: the ledger does not refuse.
LEMMA DrainStep ==
  ASSUME BoundInv, AuditAccounting, NEW r \in Regions,
         NEW S \in SUBSET Holding(r, {"RESERVED"}),
         NEW i \in Holding(r, {"RESERVED"}), i \notin S
  PROVE  releaseForDrain(DrainedAtOnce(r, S), i) = DrainedAtOnce(r, S \cup {i})
<1> DEFINE v  == reservations[i]
           H  == Holding(r, {"RESERVED"})
           M  == Moved(S, [state \in AnyState |-> "CANCELLED"])
           L  == [ledger EXCEPT ![r] = release(@, Bytes(S))]
           st == DrainedAtOnce(r, S)
<1>1. TypeOK /\ ledger[r] \in Ledgers /\ invariant(ledger[r])
  BY DEF BoundInv, IInv, TypeOK, LedgerClosed
<1>2. H \in SUBSET ReservationIds /\ i \in ReservationIds
      /\ S \in SUBSET ReservationIds /\ S \cup {i} \in SUBSET ReservationIds
  BY DEF Holding
<1>3. v.region = r /\ v.state = "RESERVED"
  BY DEF Holding
<1>4. Bytes(S \cup {i}) = Bytes(S) + v.bytes
  <2>1. (S \cup {i}) \cap H = S \cup {i} /\ S \cap H = S
    OBVIOUS
  <2>2. Bytes((S \cup {i}) \cap H) = Bytes(S \cap H) + v.bytes
    <3> HIDE DEF H
    <3>1. i \in H
      BY DEF H
    <3> QED BY <1>1, <1>2, <3>1, OneMore
  <2> HIDE DEF H, v
  <2> QED BY <2>1, <2>2
<1>5. Bytes(S) \in Nat /\ v.bytes \in Nat /\ Bytes(S \cup {i}) <= ledger[r]["reserved"]
  <2>1. (S \cup {i}) \cap H = S \cup {i}
    OBVIOUS
  <2>2. Bytes((S \cup {i}) \cap H) <= ledger[r]["reserved"]
    BY <1>1, <1>2, HeldBytes
  <2>3. v.bytes \in Nat
    BY <1>1, <1>2, MaxWordAssumption DEF TypeOK, Reservations, Words
  <2>4. Bytes(S) \in Nat
    BY <1>2, BytesNat
  <2> HIDE DEF H, v
  <2> QED BY <2>1, <2>2, <2>3, <2>4
<1>6. /\ CanMove(release(ledger[r], Bytes(S)), "reserved", "free", v.bytes)
      /\ release(release(ledger[r], Bytes(S)), v.bytes)
           = release(ledger[r], Bytes(S \cup {i}))
  <2> HIDE DEF v
  <2> QED BY <1>1, <1>4, <1>5, ReleaseTwice
<1>7. M[i] = v
  BY <1>2 DEF Moved
<1>8. [M EXCEPT ![i].state = "CANCELLED"]
        = Moved(S \cup {i}, [state \in AnyState |-> "CANCELLED"])
  <2>1. v.state \in AnyState
    BY <1>1, <1>2 DEF TypeOK, Reservations, AnyState
  <2>2. [state \in AnyState |-> "CANCELLED"][v.state] = "CANCELLED"
    BY <2>1
  <2> DEFINE c == [state \in AnyState |-> "CANCELLED"]
  <2> HIDE DEF c
  <2>3. [Moved(S, c) EXCEPT ![i].state = c[@]] = Moved(S \cup {i}, c)
    BY <1>2 DEF Moved
  <2>4. Moved(S, c)[i] = reservations[i] /\ c[reservations[i].state] = "CANCELLED"
    BY <1>7, <2>2 DEF c
  <2>5. [Moved(S, c) EXCEPT ![i].state = "CANCELLED"] = Moved(S \cup {i}, c)
    BY <2>3, <2>4
  <2> QED BY <2>5 DEF c
<1>9. L[r] = release(ledger[r], Bytes(S))
  BY <1>1 DEF TypeOK
<1>10. [L EXCEPT ![r] = release(L[r], v.bytes)]
         = [ledger EXCEPT ![r] = release(@, Bytes(S \cup {i}))]
  <2>1. ledger \in [Regions -> Ledgers]
    BY <1>1 DEF TypeOK
  <2>2. release(L[r], v.bytes) = release(ledger[r], Bytes(S \cup {i}))
    BY <1>6, <1>9, Zenon
  <2> HIDE DEF v
  <2> QED BY <2>1, <2>2
<1>11. st = [reservations |-> M, ledger |-> L]
  BY Zenon DEF DrainedAtOnce
<1>12. st.reservations = M /\ st.ledger = L
  BY <1>11
<1>13. DrainedAtOnce(r, S \cup {i})
         = [reservations |-> Moved(S \cup {i}, [state \in AnyState |-> "CANCELLED"]),
            ledger |-> [ledger EXCEPT ![r] = release(@, Bytes(S \cup {i}))]]
  BY Zenon DEF DrainedAtOnce
<1> HIDE DEF v, M, L, st
<1>14. CanMove(L[r], "reserved", "free", v.bytes)
  BY <1>6, <1>9, Zenon
<1>15. releaseForDrain(st, i)
         = [reservations |-> [M EXCEPT ![i].state = "CANCELLED"],
            ledger |-> [L EXCEPT ![r] = release(L[r], v.bytes)]]
  BY <1>3, <1>7, <1>12, <1>14 DEF releaseForDrain
<1>16. releaseForDrain(st, i) = DrainedAtOnce(r, S \cup {i})
  BY <1>8, <1>10, <1>13, <1>15, Zenon
<1> QED BY <1>16 DEF st

\* Nothing is released yet.
LEMMA DrainedNone ==
  ASSUME BoundInv, NEW r \in Regions
  PROVE  DrainedAtOnce(r, {}) = [reservations |-> reservations, ledger |-> ledger]
<1>1. TypeOK /\ ledger[r] \in Ledgers /\ invariant(ledger[r])
  BY DEF BoundInv, IInv, TypeOK, LedgerClosed
<1>2. Bytes({}) = 0
  BY AuditedIs, BytesEmpty
<1>3. Moved({}, [state \in AnyState |-> "CANCELLED"]) = reservations
  BY <1>1 DEF Moved, TypeOK
<1>4. release(ledger[r], 0) = ledger[r]
  <2> DEFINE k == Move(ledger[r], "reserved", "free", 0)
  <2>1. "reserved" \in Buckets /\ "free" \in Buckets /\ "reserved" # "free"
        /\ "reserved" \in Counters /\ "free" \in Counters
    BY DEF Buckets, Counters
  <2>2. \A c \in Counters : ledger[r][c] \in Nat
    BY <1>1, MaxWordAssumption DEF Ledgers, Words
  <2>3. 0 \in Nat /\ 0 <= ledger[r]["reserved"]
    BY <2>1, <2>2
  <2>4. /\ k \in Ledgers
        /\ \A c \in Counters \ {"reserved", "free"} : k[c] = ledger[r][c]
    BY <1>1, <2>1, <2>3, MoveFrame
  <2>5. k["reserved"] = ledger[r]["reserved"] - 0 /\ k["free"] = ledger[r]["free"] + 0
    BY <1>1, <2>1, <2>3, MoveExact
  <2>6. release(ledger[r], 0) = k
    BY Zenon DEF release
  <2> HIDE DEF k
  <2>7. \A c \in Counters : k[c] = ledger[r][c]
    BY <2>1, <2>2, <2>4, <2>5
  <2>8. k = ledger[r]
    BY <1>1, <2>4, <2>7 DEF Ledgers
  <2> QED BY <2>6, <2>8
<1>5. [ledger EXCEPT ![r] = release(@, 0)] = ledger
  BY <1>1, <1>4 DEF TypeOK
<1> QED BY <1>2, <1>3, <1>5, Zenon DEF DrainedAtOnce

\* The loop over the reserved ones of a region.
LEMMA DrainLoopEnds ==
  ASSUME BoundInv, AuditAccounting, NEW r \in Regions,
         NEW order \in SetToSeqs(Holding(r, {"RESERVED"}))
  PROVE  FoldLeft(releaseForDrain, [reservations |-> reservations, ledger |-> ledger],
                  order) = DrainedAtOnce(r, Holding(r, {"RESERVED"}))
<1> DEFINE start == [reservations |-> reservations, ledger |-> ledger]
           H == Holding(r, {"RESERVED"})
<1>1. H \in SUBSET ReservationIds
  BY DEF Holding
<1>2. PICK n \in Nat : /\ DOMAIN order = 1..n
                       /\ \A k \in 1..n : order[k] \in H
                       /\ \A j, k \in 1..n : j # k => order[j] # order[k]
                       /\ {order[j] : j \in 1..n} = H
  BY <1>1, OrderOfAll
<1> DEFINE v == [k \in 0..n |-> DrainedAtOnce(r, Turns(order, k))]
<1>3. v[0] = start
  <2>1. Turns(order, 0) = {} /\ 0 \in 0..n
    BY DEF Turns
  <2> QED BY <2>1, DrainedNone
<1>4. ASSUME NEW k \in 1..n
      PROVE  v[k] = releaseForDrain(v[k - 1], order[k])
  <2>1. /\ order[k] \notin Turns(order, k - 1)
        /\ Turns(order, k) = Turns(order, k - 1) \cup {order[k]}
    <3> HIDE DEF H
    <3> QED BY <1>1, <1>2, NextTurn
  <2>2. k \in 0..n /\ k - 1 \in 0..n
    OBVIOUS
  <2>3. Turns(order, k - 1) \in SUBSET H /\ order[k] \in H
    <3>1. \A j \in 1..(k - 1) : j \in 1..n
      OBVIOUS
    <3> QED BY <1>2, <3>1 DEF Turns
  <2>4. releaseForDrain(DrainedAtOnce(r, Turns(order, k - 1)), order[k])
          = DrainedAtOnce(r, Turns(order, k))
    BY <2>1, <2>3, DrainStep
  <2> QED BY <2>2, <2>4
<1>5. v[n] = DrainedAtOnce(r, H)
  <2>1. Turns(order, n) = H
    BY <1>2, Zenon DEF Turns
  <2>2. n \in 0..n
    OBVIOUS
  <2>3. v[n] = DrainedAtOnce(r, Turns(order, n))
    BY <2>2, Zenon
  <2> QED BY <2>1, <2>3, Zenon
<1> HIDE DEF v, start, H
<1>6. DrainRun!IsRun(start, order, n, v)
  BY <1>2, <1>3, <1>4, Zenon DEF DrainRun!IsRun, DrainRun!RunsTo
<1>7. DrainRun!Loop(start, order) = v[n]
  BY <1>2, <1>6, DrainRun!RunIsFold, Zenon
<1>8. DrainRun!Loop(start, order) = FoldLeft(releaseForDrain, start, order)
  BY Zenon DEF DrainRun!Loop, DrainRun!FoldLeft, DrainRun!MapThenFoldSet,
               DrainRun!Max, FoldLeft, MapThenFoldSet, Max
<1> QED BY <1>5, <1>7, <1>8, Zenon DEF start, H

\* The loop of beginDrain ends, whatever the order of the hash map, with what the
\* model's beginDrain does at once: every reserved one is cancelled and the ledger
\* refuses none of their releases, so the branch that fences is never taken.
THEOREM DrainCancelsAtOnce == Spec => []DrainLoopReleasesAll
<1>1. BoundInv /\ AuditAccounting => DrainLoopReleasesAll
  BY DrainLoopEnds, Zenon DEF DrainLoopReleasesAll
<1>2. Init => BoundInv /\ AuditAccounting
  BY InitBound, InitAudit
<1>3. BoundInv /\ AuditAccounting /\ [Next]_vars => (BoundInv /\ AuditAccounting)'
  BY NextBound, NextAudit DEF BoundInv, IInv
<1> QED BY <1>1, <1>2, <1>3, PTL DEF Spec
=============================================================================
