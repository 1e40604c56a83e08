-------------------------- MODULE FabricProperties --------------------------
(***************************************************************************)
(* What the fabric promises: the invariants and action properties that hold *)
(* of module Fabric.                                                        *)
(***************************************************************************)
EXTENDS Fabric

Live == {"RESERVED"} \cup Promised

\* Type correctness of the fabric's maps: every record is of the shape its
\* struct declares, every counter is a word.
TypeOK ==
  /\ epoch \in Epochs
  /\ providers \in [Providers -> ProviderRecords]
  /\ domains \in [Domains -> Nat]
  /\ regions \in [Regions -> RegionRecords]
  /\ ledger \in [Regions -> Ledgers]
  /\ evidence \in [Regions -> EvidenceRecords]
  /\ attachments \in [Regions -> Seq(Attachments)]
  /\ poolMemberships \in [Regions -> SUBSET Pools]
  /\ pools \in [Pools -> PoolRecords]
  /\ policies \in [Policies -> PolicyRecords]
  /\ consumers \in [Consumers -> Nat]
  /\ reservations \in [ReservationIds -> Reservations]
  /\ workers \in [Workers -> WorkerRecords]

-----------------------------------------------------------------------------
\* Closure of the accounting: in every region the five buckets add up to the
\* online capacity, which is at most the total the descriptor states, through
\* every interleaving of reserve, commit, drain, fence, withdraw and recover.
LedgerClosed ==
  \A r \in Regions :
    /\ invariant(ledger[r])
    /\ r \in KnownRegions =>
         ledger[r]["total"] = regions[r].descriptor.totalCapacityBytes

\* The cross-check of audit(): the reserved and the committed bytes of a region
\* are exactly the bytes of the reservations on it in those states. It is what
\* makes every fencing loop succeed.
AuditAccounting ==
  \A r \in Regions :
    /\ ledger[r]["reserved"] = Bytes(Holding(r, {"RESERVED"}))
    /\ ledger[r]["committed"] = Bytes(Holding(r, Promised))

\* A reservation that still holds bytes is bound to the current generation of
\* its region, provider, pool and policy and to the current epoch, and its
\* provider backs its region: whatever replaces one of them fences it.
LiveReservationCurrent ==
  \A i \in ReservationIds : LET v == reservations[i] IN v.state \in Live =>
    /\ v.bytes > 0
    /\ v.region \in KnownRegions /\ v.regionGeneration = RegionGeneration(v.region)
    /\ v.provider = BackingProvider(v.region)
    /\ v.providerGeneration = ProviderGeneration(v.provider)
    /\ v.pool # Null => v.poolGeneration = pools[v.pool].generation
    /\ v.policy # Null => v.policyGeneration = policies[v.policy].generation
    /\ v.epoch = epoch

\* A region that drains, is withdrawn or retired has no reserved bytes, and a
\* retired region or provider has no promise of any kind left.
SettledHoldsNothing ==
  \A i \in ReservationIds : LET v == reservations[i] IN v.state \in Live =>
    /\ v.state = "RESERVED" => regions[v.region].lifecycle \notin Settled
    /\ regions[v.region].lifecycle # "RETIRED"
    /\ providers[v.provider].lifecycle # "RETIRED"

\* What a live boot has reserved is fenced with its death: no live reservation
\* belongs to the boot a worker died with.
NoReservationOfDeadBoot ==
  \A i \in ReservationIds : LET v == reservations[i] IN
    (v.state \in Live /\ v.worker # Null /\ workers[v.worker].boot = v.boot)
      => workers[v.worker].alive

\* CURRENT evidence was published in this epoch, for this generation of the
\* region, and by the current generation of a provider if by the region's own.
CurrentEvidenceIsFresh ==
  \A r \in Regions : evidence[r].status = "CURRENT" =>
    /\ evidence[r].has
    /\ evidence[r].latest.epoch = epoch
    /\ evidence[r].latest.regionGeneration = RegionGeneration(r)
    /\ evidence[r].latest.sourceProvider = BackingProvider(r) =>
         evidence[r].latest.sourceProviderGeneration
           = ProviderGeneration(BackingProvider(r))

\* The ranking names a single winner unless two different sets of factors weigh
\* the same: its order does not depend on that of the hash map, and a region
\* that is eligible is never lost in it.
RankingIsDeterministic ==
  \A q \in Requests :
    /\ EligibleRegions(q) # {} => TopRegions(q) # {}
    /\ \A r, s \in TopRegions(q) : r # s => Factors(q, r) # Factors(q, s)

\* An eligible region serves the request to the end: its ledger does not refuse
\* the bytes, its evidence is of this epoch and generation, and the reservation
\* made there, if committed at once, passes the checks commit makes on a region.
EligibleServes ==
  \A q \in Requests : \A r \in EligibleRegions(q) :
    /\ CanMove(ledger[r], "free", "reserved", q.requiredBytes)
    /\ evidence[r].latest.epoch = epoch
    /\ evidence[r].latest.regionGeneration = RegionGeneration(r)
    /\ RegionCommits(
         NewReservation(q, r, [epoch |-> epoch, worker |-> Null, boot |-> Null]))

-----------------------------------------------------------------------------
\* Bytes become promised only where they can be used: a reservation is made or
\* committed only in a region in service, with CURRENT evidence, and a
\* committed one of a worker only while its boot is alive.
PromisesOnlyInService ==
  [][\A i \in ReservationIds :
       (/\ reservations'[i].state \in Live
        /\ reservations'[i].state # reservations[i].state)
       => LET r == reservations'[i].region
              w == reservations'[i].worker IN
          /\ regions[r].lifecycle \in {"ONLINE", "DEGRADED"}
          /\ evidence[r].status = "CURRENT"
          /\ w # Null => workers[w].alive /\ workers[w].boot = reservations'[i].boot
    ]_vars

\* Fenced, withdrawn and drained bytes are not promised again behind anyone's
\* back: they leave the unavailable bucket only when the region is recovered
\* or registered anew, and both need fresh evidence before the next promise.
UnavailableUntilRecovered ==
  [][\A r \in Regions : ledger'[r]["unavailable"] < ledger[r]["unavailable"] =>
       regions'[r].lifecycle = "DECLARED" /\ evidence'[r].status # "CURRENT"]_vars

\* A reservation moves only along reservationStateAllowed and is created
\* RESERVED: what has ended stays ended, whatever is fenced around it.
ReservationTransitionsAllowed ==
  [][\A i \in ReservationIds :
       LET from == reservations[i].state  to == reservations'[i].state IN
       from # to => \/ from = "ABSENT" /\ to = "RESERVED"
                    \/ from # "ABSENT" /\ reservationStateAllowed(from, to)]_vars

\* While a generation of a provider lasts its lifecycle moves only along
\* providerLifecycleAllowed, though drains of several regions drive it.
ProviderTransitionsAllowed ==
  [][\A p \in Providers :
       LET from == providers[p].lifecycle  to == providers'[p].lifecycle IN
       (from # to /\ providers'[p].descriptor = providers[p].descriptor)
         => providerLifecycleAllowed(from, to)]_vars

\* What a consumer has been promised is withdrawn from it only by a fence: a
\* COMMITTED reservation that ends without a release leaves its bytes
\* unavailable, or its region has been replaced.
CommittedBytesAccounted ==
  [][\A i \in ReservationIds :
       LET v == reservations[i] IN
       (v.state = "COMMITTED" /\ reservations'[i].state \notin {"COMMITTED", "RELEASED"})
         => \/ RegionGeneration(v.region)' # v.regionGeneration
            \/ ledger'[v.region]["unavailable"]
                 >= ledger[v.region]["unavailable"] + v.bytes]_vars

-----------------------------------------------------------------------------
(***************************************************************************)
(* The fabric as a maker of promises: a reservation is an open promise as   *)
(* long as it holds bytes, and a region has what is online.                 *)
(***************************************************************************)
PhaseOf(state) ==
  CASE state = "ABSENT"   -> "none"
    [] state = "RESERVED" -> "made"
    [] state \in Promised -> "confirmed"
    [] OTHER              -> "ended"

Promise == INSTANCE Promises WITH
  Ids      <- ReservationIds,
  MaxBytes <- MaxWord,
  promise  <- [i \in ReservationIds |->
                 [phase  |-> PhaseOf(reservations[i].state),
                  region |-> reservations[i].region,
                  bytes  |-> reservations[i].bytes]],
  capacity <- [r \in Regions |-> ledger[r]["online"]]

\* The fabric implements Promises: through evidence that shrinks a region,
\* drains, fences, releases and recoveries a region never owes more bytes than
\* it has online, and a reservation that has ended holds nothing again.
PromisesKept == Promise!Spec
=============================================================================
