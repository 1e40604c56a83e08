------------------------------- MODULE Fabric -------------------------------
(***************************************************************************)
(* The operations of class Fabric (src/src/fabric.cpp, reservation.cpp) as  *)
(* one action each. A call that returns an error before it changes anything *)
(* is no step; the guards of an action are the checks the call must pass.   *)
(***************************************************************************)
EXTENDS Selection

-----------------------------------------------------------------------------
(***************************************************************************)
(* Fencing. The loops of the code visit the reservations in the order of a  *)
(* hash map and move the bytes of each one; here a set S is fenced at once, *)
(* with the bytes of S as the number of its (reservation, byte) pairs.      *)
(***************************************************************************)
Bytes(S) ==
  Cardinality({x \in S \X (1..MaxWord) : x[2] <= reservations[x[1]].bytes})

\* All the reservations on region r.
OnRegion(r) == {i \in ReservationIds : reservations[i].region = r}

Promised == {"COMMITTED", "ACTIVE"}

\* The reservations on region r in one of the given states.
Holding(r, states) ==
  {i \in ReservationIds :
     reservations[i].region = r /\ reservations[i].state \in states}

AnyState == ReservationStates \cup {"ABSENT"}

\* A fence that does not stop at a reservation that has already ended.
Fault_FenceOutcome_Ended ==
  [state \in AnyState |->
     CASE state = "ABSENT"    -> state
       [] state = "RESERVED"  -> "FENCED"
       [] state \in Promised  -> "REVALIDATION_REQUIRED"
       [] OTHER               -> "CANCELLED"]

\* Impl::fence leaves a reservation that has already ended as it is.
FenceOutcome ==
  [state \in AnyState |->
     CASE state = "RESERVED"                   -> "FENCED"
       [] state \in Promised                   -> "REVALIDATION_REQUIRED"
       [] state \in {"REQUESTED", "EVALUATED"} -> "CANCELLED"
       [] OTHER                                -> state]

\* setEpoch fences in line, and a reserved one to another state.
EpochOutcome == [FenceOutcome EXCEPT !["RESERVED"] = "REVALIDATION_REQUIRED"]

\* The reservations after those in S have changed state.
Moved(S, outcome) ==
  [i \in ReservationIds |->
     IF i \in S THEN [reservations[i] EXCEPT !.state = outcome[@]]
                ELSE reservations[i]]

\* Committed bytes are forgotten: only what was merely reserved is fenced.
Fault_FencedLedger_ReservedOnly(l, S, r) ==
  fenceReserved(l, Bytes(S \cap Holding(r, {"RESERVED"})))

\* Ledger l of region r after the reservations in S are fenced. No move is
\* refused: a region's buckets hold at least the bytes of its reservations.
FencedLedger(l, S, r) ==
  fenceCommitted(fenceReserved(l, Bytes(S \cap Holding(r, {"RESERVED"}))),
                 Bytes(S \cap Holding(r, Promised)))

Fence(S) ==
  /\ reservations' = Moved(S, FenceOutcome)
  /\ ledger' = [r \in Regions |-> FencedLedger(ledger[r], S, r)]

\* Lifecycles on which a lost epoch, worker or provider leaves no mark.
Settled == {"RETIRED", "DRAINING", "UNAVAILABLE"}

Revalidated(region) ==
  IF region.lifecycle \in Settled THEN region
  ELSE [region EXCEPT !.lifecycle = "REVALIDATION_REQUIRED"]

-----------------------------------------------------------------------------
(***************************************************************************)
(* Epoch, consumers, registration.                                          *)
(***************************************************************************)
\* setEpoch: every worker, all evidence and every reservation is fenced;
\* attachments are not touched.
setEpoch(e) ==
  /\ e > epoch
  /\ epoch' = e
  /\ workers' = [w \in Workers |-> [workers[w] EXCEPT !.alive = FALSE]]
  /\ evidence' = [r \in Regions |->
       IF evidence[r].has
       THEN [evidence[r] EXCEPT !.status = "REVALIDATION_REQUIRED"]
       ELSE evidence[r]]
  /\ regions' = [r \in Regions |->
       IF r \in KnownRegions THEN Revalidated(regions[r]) ELSE regions[r]]
  /\ reservations' = Moved(ReservationIds, EpochOutcome)
  /\ ledger' = [r \in Regions |-> FencedLedger(ledger[r], ReservationIds, r)]
  /\ UNCHANGED <<providers, domains, attachments, poolMemberships, pools,
                 policies, consumers>>

\* A consumer's generation only grows; its reservations are not fenced.
registerConsumer(c, g, a) ==
  /\ authorityAcceptable(a)
  /\ g > consumers[c]
  /\ consumers' = [consumers EXCEPT ![c] = g]
  /\ UNCHANGED <<epoch, providers, domains, regions, ledger, evidence,
                 attachments, poolMemberships, pools, policies, reservations,
                 workers>>

capabilityContradiction(caps) ==
  \/ caps["PERSISTENT"] = "SUPPORTED" /\ caps["VOLATILE"] = "SUPPORTED"
  \/ caps["BYTE_ADDRESSABLE"] = "SUPPORTED" /\ caps["BLOCK_ORIENTED"] = "SUPPORTED"

\* The sizes every provider and region descriptor must state.
Sized(d) ==
  d.totalCapacityBytes > 0 /\ d.alignmentBytes > 0 /\ d.granularityBytes > 0

\* A reincarnated provider whose reservations are not fenced.
Fault_registerProvider_NoFence(d, a) ==
  /\ authorityAcceptable(a)
  /\ Sized(d) /\ ~capabilityContradiction(d.capabilities)
  /\ d.generation > ProviderGeneration(d.id)
  /\ providers' = [providers EXCEPT ![d.id] =
                     [descriptor |-> d, lifecycle |-> "REGISTERED"]]
  /\ evidence' = [r \in Regions |->
       IF r \in RegionsOf(d.id)
       THEN [evidence[r] EXCEPT !.has = FALSE, !.status = "UNKNOWN"]
       ELSE evidence[r]]
  /\ UNCHANGED <<epoch, domains, regions, ledger, reservations, attachments,
                 poolMemberships, pools, policies, consumers, workers>>

\* A newer generation replaces the record; what was reserved from the old one
\* is fenced and its regions lose their evidence.
registerProvider(d, a) ==
  /\ authorityAcceptable(a)
  /\ Sized(d) /\ ~capabilityContradiction(d.capabilities)
  /\ d.generation > ProviderGeneration(d.id)
  /\ providers' = [providers EXCEPT ![d.id] =
                     [descriptor |-> d, lifecycle |-> "REGISTERED"]]
  /\ Fence({i \in ReservationIds : reservations[i].provider = d.id})
  /\ regions' = [r \in Regions |->
       IF r \in RegionsOf(d.id) /\ regions[r].lifecycle # "RETIRED"
       THEN [regions[r] EXCEPT !.lifecycle = "REVALIDATION_REQUIRED"]
       ELSE regions[r]]
  /\ evidence' = [r \in Regions |->
       IF r \in RegionsOf(d.id)
       THEN [evidence[r] EXCEPT !.has = FALSE, !.status = "UNKNOWN"]
       ELSE evidence[r]]
  /\ UNCHANGED <<epoch, domains, attachments, poolMemberships, pools, policies,
                 consumers, workers>>

registerDomain(d, g, a) ==
  /\ authorityAcceptable(a)
  /\ g > domains[d]
  /\ domains' = [domains EXCEPT ![d] = g]
  /\ UNCHANGED <<epoch, providers, regions, ledger, evidence, attachments,
                 poolMemberships, pools, policies, consumers, reservations,
                 workers>>

\* A newer generation of a region starts with an empty ledger, no evidence, no
\* attachments and in no pool; the old one's reservations are fenced.
registerRegion(d, a) ==
  /\ authorityAcceptable(a)
  /\ Sized(d) /\ ~capabilityContradiction(d.staticCapabilities)
  /\ d.provider \in KnownProviders
  /\ d.generation > RegionGeneration(d.id)
  /\ reservations' = Moved(OnRegion(d.id), FenceOutcome)
  /\ regions' = [regions EXCEPT ![d.id] =
                   [descriptor |-> d, lifecycle |-> "DECLARED"]]
  /\ ledger' = [ledger EXCEPT ![d.id] = NewLedger(d.totalCapacityBytes)]
  /\ evidence' = [evidence EXCEPT ![d.id] = NoEvidence]
  /\ attachments' = [attachments EXCEPT ![d.id] = <<>>]
  /\ poolMemberships' = [poolMemberships EXCEPT ![d.id] = {}]
  /\ UNCHANGED <<epoch, providers, domains, pools, policies, consumers, workers>>

\* registerPool and replacePoolGeneration. The members come with the
\* descriptor; the regions' own lists of pools are not touched.
registerPool(d, a) ==
  /\ authorityAcceptable(a)
  /\ d.generation > pools[d.id].generation
  /\ Fence({i \in ReservationIds : reservations[i].pool = d.id})
  /\ pools' = [pools EXCEPT ![d.id] =
                 [generation |-> d.generation, members |-> d.members]]
  /\ UNCHANGED <<epoch, providers, domains, regions, evidence, attachments,
                 poolMemberships, policies, consumers, workers>>

\* A new policy generation that leaves the reservations under the old one.
Fault_registerPolicy_NoFence(d, a) ==
  /\ authorityAcceptable(a)
  /\ d.generation > policies[d.id].generation
  /\ policies' = [policies EXCEPT ![d.id] =
       [generation |-> d.generation, allowDegraded |-> d.allowDegraded]]
  /\ UNCHANGED <<epoch, providers, domains, regions, evidence, attachments,
                 poolMemberships, pools, consumers, workers, ledger,
                 reservations>>

registerPolicy(d, a) ==
  /\ authorityAcceptable(a)
  /\ d.generation > policies[d.id].generation
  /\ Fence({i \in ReservationIds : reservations[i].policy = d.id})
  /\ policies' = [policies EXCEPT ![d.id] =
       [generation |-> d.generation, allowDegraded |-> d.allowDegraded]]
  /\ UNCHANGED <<epoch, providers, domains, regions, evidence, attachments,
                 poolMemberships, pools, consumers, workers>>

-----------------------------------------------------------------------------
(***************************************************************************)
(* Pool membership.                                                         *)
(***************************************************************************)
\* The indices at which pool p lists region r.
Entries(p, r) == {k \in DOMAIN pools[p].members : pools[p].members[k].region = r}

\* The set K of indices enumerated in increasing order.
InOrder(K) ==
  {f \in [1..Cardinality(K) -> K] :
     \A i, j \in 1..Cardinality(K) : i < j => f[i] < f[j]}

\* The first entry of the region decides: its own generation is refused, any
\* other gets a second entry, without touching the region's list of pools.
addPoolMember(p, m, a) ==
  /\ authorityAcceptable(a)
  /\ pools[p].generation # 0
  /\ m.region \in KnownRegions /\ m.generation = RegionGeneration(m.region)
  /\ Entries(p, m.region) # {} =>
       pools[p].members[Min(Entries(p, m.region))].generation # m.generation
  /\ pools' = [pools EXCEPT ![p].members = Append(@, m)]
  /\ poolMemberships' =
       IF Entries(p, m.region) = {}
       THEN [poolMemberships EXCEPT ![m.region] = @ \cup {p}]
       ELSE poolMemberships
  /\ UNCHANGED <<epoch, providers, domains, regions, ledger, evidence,
                 attachments, policies, consumers, reservations, workers>>

\* All entries of the region go, whatever their generation; the others keep
\* their order.
removePoolMember(p, r, a) ==
  /\ authorityAcceptable(a)
  /\ pools[p].generation # 0
  /\ Entries(p, r) # {}
  /\ \E f \in InOrder(DOMAIN pools[p].members \ Entries(p, r)) :
       pools' = [pools EXCEPT ![p].members = [k \in DOMAIN f |-> @[f[k]]]]
  /\ poolMemberships' = [poolMemberships EXCEPT ![r] = @ \ {p}]
  /\ UNCHANGED <<epoch, providers, domains, regions, ledger, evidence,
                 attachments, policies, consumers, reservations, workers>>
-----------------------------------------------------------------------------
(***************************************************************************)
(* Dynamic evidence.                                                        *)
(***************************************************************************)
\* The lifecycle the reported health asks for.
TargetLifecycle(health) ==
  CASE health = "FAILED"   -> "REVALIDATION_REQUIRED"
    [] health = "DEGRADED" -> "DEGRADED"
    [] OTHER               -> "ONLINE"

\* Evidence of an earlier epoch is taken for evidence of this one.
Fault_HeaderCurrent_AnyEpoch(e) ==
  /\ e.region \in KnownRegions
  /\ e.regionGeneration = RegionGeneration(e.region)
  /\ e.sourceProvider \in KnownProviders
  /\ e.sourceProviderGeneration = ProviderGeneration(e.sourceProvider)

\* The header names this epoch and current generations; the source provider
\* need not be the one that backs the region.
HeaderCurrent(e) ==
  /\ e.epoch = epoch
  /\ e.region \in KnownRegions
  /\ e.regionGeneration = RegionGeneration(e.region)
  /\ e.sourceProvider \in KnownProviders
  /\ e.sourceProviderGeneration = ProviderGeneration(e.sourceProvider)

\* The checks a publication passes before anything is changed.
Publishable(e, a) ==
  /\ authorityAcceptable(a)
  /\ HeaderCurrent(e)
  /\ a.worker # Null => e.worker = a.worker /\ e.boot = a.boot
  /\ e.onlineCapacityBytes <= regions[e.region].descriptor.totalCapacityBytes
  /\ regions[e.region].lifecycle \notin {"DRAINING", "RETIRED"}
  /\ CanSetOnline(ledger[e.region], e.onlineCapacityBytes)

\* What every publication that passes them writes.
Record(e) ==
  /\ ledger' = [ledger EXCEPT ![e.region] = setOnline(@, e.onlineCapacityBytes)]
  /\ evidence' = [evidence EXCEPT ![e.region] =
                    [latest |-> e, has |-> TRUE, status |-> "CURRENT"]]
  /\ UNCHANGED <<epoch, domains, attachments, poolMemberships, pools, policies,
                 consumers, reservations, workers>>

\* The region may take the lifecycle its health asks for, or has it.
LifecycleFollows(e) ==
  LET from == regions[e.region].lifecycle
      to   == TargetLifecycle(e.health)
  IN  to = from \/ regionLifecycleAllowed(from, to)

\* publishRegionEvidence. An ONLINE region brings its provider online.
publishRegionEvidence(e, a) ==
  /\ Publishable(e, a)
  /\ LifecycleFollows(e)
  /\ Record(e)
  /\ regions' = [regions EXCEPT ![e.region].lifecycle = TargetLifecycle(e.health)]
  /\ providers' =
       IF /\ TargetLifecycle(e.health) = "ONLINE"
          /\ providers[BackingProvider(e.region)].lifecycle
               \in {"REGISTERED", "PROBING", "OFFLINE", "REVALIDATION_REQUIRED"}
          /\ providerLifecycleAllowed(
               providers[BackingProvider(e.region)].lifecycle, "ONLINE")
       THEN [providers EXCEPT ![BackingProvider(e.region)].lifecycle = "ONLINE"]
       ELSE providers

\* The same call when the table forbids that lifecycle: it returns an error,
\* after the evidence and the online capacity have been replaced.
publishRefusedLate(e, a) ==
  /\ Publishable(e, a)
  /\ ~LifecycleFollows(e)
  /\ Record(e)
  /\ UNCHANGED <<regions, providers>>

\* An attachment replaces the one with its id, or is appended.
publishAttachment(t, a) ==
  /\ authorityAcceptable(a)
  /\ t.epoch = epoch
  /\ t.id # Null /\ t.generation # 0
  /\ t.region \in KnownRegions /\ t.regionGeneration = RegionGeneration(t.region)
  /\ attachments' = [attachments EXCEPT ![t.region] =
       IF \E k \in DOMAIN @ : @[k].id = t.id
       THEN [k \in DOMAIN @ |-> IF @[k].id = t.id THEN t ELSE @[k]]
       ELSE Append(@, t)]
  /\ UNCHANGED <<epoch, providers, domains, regions, ledger, evidence,
                 poolMemberships, pools, policies, consumers, reservations,
                 workers>>

-----------------------------------------------------------------------------
(***************************************************************************)
(* Drain, withdrawal, recovery, retirement.                                 *)
(***************************************************************************)
\* The checks and the part of the state common to the calls on a region.
OnKnownRegion(r, a) ==
  /\ authorityAcceptable(a)
  /\ r \in KnownRegions
  /\ UNCHANGED <<epoch, domains, attachments, poolMemberships, pools, policies,
                 consumers, workers>>

SetLifecycle(r, to) == regions' = [regions EXCEPT ![r].lifecycle = to]

\* The backing provider follows a drain of one of its regions.
ProviderFollows(r, from, to) ==
  providers' = IF providers[BackingProvider(r)].lifecycle = from
               THEN [providers EXCEPT ![BackingProvider(r)].lifecycle = to]
               ELSE providers

\* The drain takes what is free and leaves the reserved bytes where they are.
Fault_beginDrain_KeepsReserved(r, a) ==
  /\ OnKnownRegion(r, a)
  /\ regionLifecycleAllowed(regions[r].lifecycle, "DRAINING")
  /\ ledger' = [ledger EXCEPT ![r] = drain(@, @["free"])]
  /\ SetLifecycle(r, "DRAINING")
  /\ ProviderFollows(r, "ONLINE", "DRAINING")
  /\ UNCHANGED <<evidence, reservations>>

\* The drain cancels what is committed too, and drains its bytes.
Fault_beginDrain_CancelsAll(r, a) ==
  /\ OnKnownRegion(r, a)
  /\ regionLifecycleAllowed(regions[r].lifecycle, "DRAINING")
  /\ LET released  == release(ledger[r], Bytes(Holding(r, {"RESERVED"})))
         completed == complete(released, Bytes(Holding(r, Promised)))
     IN  ledger' = [ledger EXCEPT ![r] = drain(completed, completed["free"])]
  /\ reservations' = Moved(Holding(r, {"RESERVED"} \cup Promised),
                           [s \in AnyState |-> "CANCELLED"])
  /\ SetLifecycle(r, "DRAINING")
  /\ ProviderFollows(r, "ONLINE", "DRAINING")
  /\ UNCHANGED evidence

\* beginDrain: reserved bytes go back to free, their reservations are
\* cancelled, and all that is free drains.
beginDrain(r, a) ==
  /\ OnKnownRegion(r, a)
  /\ regionLifecycleAllowed(regions[r].lifecycle, "DRAINING")
  /\ LET reserved == Holding(r, {"RESERVED"})
         released == release(ledger[r], Bytes(reserved))
     IN  /\ reservations' =
              Moved(reserved, [s \in AnyState |-> "CANCELLED"])
         /\ CanMove(released, "free", "draining", released["free"])
         /\ ledger' = [ledger EXCEPT ![r] = drain(released, released["free"])]
  /\ SetLifecycle(r, "DRAINING")
  /\ ProviderFollows(r, "ONLINE", "DRAINING")
  /\ UNCHANGED evidence

\* completeDrain does not look at the committed bytes.
completeDrain(r, a) ==
  /\ OnKnownRegion(r, a)
  /\ regions[r].lifecycle = "DRAINING"
  /\ CanMove(ledger[r], "draining", "unavailable", ledger[r]["draining"])
  /\ ledger' = [ledger EXCEPT ![r] = endDrain(@, @["draining"])]
  /\ SetLifecycle(r, "UNAVAILABLE")
  /\ ProviderFollows(r, "DRAINING", "OFFLINE")
  /\ UNCHANGED <<evidence, reservations>>

\* The provider follows the region back, which its own table forbids.
Fault_cancelDrain_ProviderOnline(r, a) ==
  /\ OnKnownRegion(r, a)
  /\ regions[r].lifecycle = "DRAINING"
  /\ ledger' = [ledger EXCEPT ![r] = undrain(@, @["draining"])]
  /\ SetLifecycle(r, "ONLINE")
  /\ ProviderFollows(r, "DRAINING", "ONLINE")
  /\ UNCHANGED <<evidence, reservations>>

\* What an earlier fence withdrew comes back with the drained bytes.
Fault_cancelDrain_RestoresAll(r, a) ==
  /\ OnKnownRegion(r, a)
  /\ regions[r].lifecycle = "DRAINING"
  /\ LET l == undrain(ledger[r], ledger[r]["draining"])
     IN  ledger' = [ledger EXCEPT ![r] = restore(l, l["unavailable"])]
  /\ SetLifecycle(r, "ONLINE")
  /\ UNCHANGED <<providers, evidence, reservations>>

\* cancelDrain moves the region past the table and leaves the provider.
cancelDrain(r, a) ==
  /\ OnKnownRegion(r, a)
  /\ regions[r].lifecycle = "DRAINING"
  /\ CanMove(ledger[r], "draining", "free", ledger[r]["draining"])
  /\ ledger' = [ledger EXCEPT ![r] = undrain(@, @["draining"])]
  /\ SetLifecycle(r, "ONLINE")
  /\ UNCHANGED <<providers, evidence, reservations>>

markUnavailable(r, a) ==
  /\ OnKnownRegion(r, a)
  /\ regionLifecycleAllowed(regions[r].lifecycle, "UNAVAILABLE")
  /\ CanMove(ledger[r], "free", "unavailable", ledger[r]["free"])
  /\ ledger' = [ledger EXCEPT ![r] =
                  FencedLedger(withdraw(@, @["free"]), OnRegion(r), r)]
  /\ reservations' = Moved(OnRegion(r), FenceOutcome)
  /\ SetLifecycle(r, "UNAVAILABLE")
  /\ UNCHANGED <<providers, evidence>>

\* recoverRegion: withdrawn and fenced bytes are free again, and nothing can be
\* reserved until fresh evidence arrives. Draining bytes stay where they are.
recoverRegion(r, a) ==
  /\ OnKnownRegion(r, a)
  /\ regions[r].lifecycle \in {"UNAVAILABLE", "REVALIDATION_REQUIRED", "DEGRADED"}
  /\ ledger' = [ledger EXCEPT ![r] = restore(@, @["unavailable"])]
  /\ SetLifecycle(r, "DECLARED")
  /\ evidence' = [evidence EXCEPT ![r].status = "REVALIDATION_REQUIRED"]
  /\ UNCHANGED <<providers, reservations>>

retireProvider(p, a) ==
  /\ authorityAcceptable(a)
  /\ p \in KnownProviders
  /\ providerLifecycleAllowed(providers[p].lifecycle, "RETIRED")
  /\ Fence({i \in ReservationIds : reservations[i].provider = p})
  /\ regions' = [r \in Regions |->
       IF r \in RegionsOf(p) THEN [regions[r] EXCEPT !.lifecycle = "RETIRED"]
       ELSE regions[r]]
  /\ providers' = [providers EXCEPT ![p].lifecycle = "RETIRED"]
  /\ UNCHANGED <<epoch, domains, evidence, attachments, poolMemberships, pools,
                 policies, consumers, workers>>

retireRegion(r, a) ==
  /\ OnKnownRegion(r, a)
  /\ regionLifecycleAllowed(regions[r].lifecycle, "RETIRED")
  /\ Fence(OnRegion(r))
  /\ SetLifecycle(r, "RETIRED")
  /\ UNCHANGED <<providers, evidence>>

-----------------------------------------------------------------------------
(***************************************************************************)
(* Workers.                                                                 *)
(***************************************************************************)
\* registerWorker compares the boot with the last one only, and fences nothing
\* of the boot it replaces.
registerWorker(w, boot, e, a) ==
  /\ a.epoch = epoch
  /\ e = epoch
  /\ a.worker # Null => a.worker = w /\ a.boot = boot
  /\ workers[w].boot # boot
  /\ workers' = [workers EXCEPT ![w] =
                   [boot |-> boot, registeredEpoch |-> e, alive |-> TRUE]]
  /\ UNCHANGED <<epoch, providers, domains, regions, ledger, evidence,
                 attachments, poolMemberships, pools, policies, consumers,
                 reservations>>

\* The regions whose latest evidence is of the boot worker w has now.
Observed(w) ==
  {r \in KnownRegions : /\ evidence[r].has
                        /\ evidence[r].latest.worker = w
                        /\ evidence[r].latest.boot = workers[w].boot}

\* The death leaves what the worker itself reserved.
Fault_markWorkerDead_RegionsOnly(w, a) ==
  /\ authorityAcceptable(a)
  /\ workers[w].boot # Null
  /\ workers' = [workers EXCEPT ![w].alive = FALSE]
  /\ evidence' = [r \in Regions |->
       IF r \in Observed(w)
       THEN [evidence[r] EXCEPT !.status = "REVALIDATION_REQUIRED"]
       ELSE evidence[r]]
  /\ regions' = [r \in Regions |->
       IF r \in Observed(w) THEN Revalidated(regions[r]) ELSE regions[r]]
  /\ Fence({i \in ReservationIds : reservations[i].region \in Observed(w)})
  /\ UNCHANGED <<epoch, providers, domains, attachments, poolMemberships, pools,
                 policies, consumers>>

\* markWorkerDead: its evidence needs revalidation, and the reservations it made
\* or that rest on that evidence are fenced.
markWorkerDead(w, a) ==
  /\ authorityAcceptable(a)
  /\ workers[w].boot # Null
  /\ workers' = [workers EXCEPT ![w].alive = FALSE]
  /\ evidence' = [r \in Regions |->
       IF r \in Observed(w)
       THEN [evidence[r] EXCEPT !.status = "REVALIDATION_REQUIRED"]
       ELSE evidence[r]]
  /\ regions' = [r \in Regions |->
       IF r \in Observed(w) THEN Revalidated(regions[r]) ELSE regions[r]]
  /\ Fence({i \in ReservationIds : \/ reservations[i].worker = w
                                   \/ reservations[i].region \in Observed(w)})
  /\ UNCHANGED <<epoch, providers, domains, attachments, poolMemberships, pools,
                 policies, consumers>>

-----------------------------------------------------------------------------
(***************************************************************************)
(* Reservations (src/src/reservation.cpp).                                  *)
(***************************************************************************)
\* The reservation of q on region r under authority a, bound to the current
\* generation of all it depends on.
NewReservation(q, r, a) ==
  [state |-> "RESERVED", bytes |-> q.requiredBytes,
   consumer |-> q.consumer, consumerGeneration |-> q.consumerGeneration,
   provider |-> BackingProvider(r),
   providerGeneration |-> ProviderGeneration(BackingProvider(r)),
   region |-> r, regionGeneration |-> RegionGeneration(r),
   pool |-> q.preferredPool,
   poolGeneration |-> IF q.preferredPool = Null THEN 0
                      ELSE pools[q.preferredPool].generation,
   policy |-> q.policy,
   policyGeneration |-> IF q.policy = Null THEN 0
                        ELSE policies[q.policy].generation,
   evidenceGeneration |-> IF evidence[r].has THEN evidence[r].latest.generation
                          ELSE 0,
   worker |-> a.worker, boot |-> a.boot, epoch |-> a.epoch]

\* Reservation ids come from a counter: the least one not used yet.
NextReservationId(i) ==
  /\ reservations[i].state = "ABSENT"
  /\ \A j \in 1..(i - 1) : reservations[j].state # "ABSENT"

requestReservation(q, a) ==
  /\ authorityAcceptable(a)
  /\ q.requiredBytes > 0
  /\ q.consumer # Null /\ q.consumerGeneration # 0
  /\ \E r \in TopRegions(q), i \in ReservationIds :
       /\ CanMove(ledger[r], "free", "reserved", q.requiredBytes)
       /\ NextReservationId(i)
       /\ ledger' = [ledger EXCEPT ![r] = reserve(@, q.requiredBytes)]
       /\ reservations' = [reservations EXCEPT ![i] = NewReservation(q, r, a)]
  /\ UNCHANGED <<epoch, providers, domains, regions, evidence, attachments,
                 poolMemberships, pools, policies, consumers, workers>>

\* Every generation the reservation was bound to is still the current one.
BindingsCurrent(v) ==
  /\ RegionGeneration(v.region) = v.regionGeneration
  /\ ProviderGeneration(v.provider) = v.providerGeneration
  /\ v.policy # Null => policies[v.policy].generation = v.policyGeneration
  /\ v.pool # Null => pools[v.pool].generation = v.poolGeneration
  /\ v.epoch = epoch
  /\ consumers[v.consumer] \in {0, v.consumerGeneration}

\* Only who reserved may commit: the same live boot, or an operator.
HolderCommits(v, a) ==
  /\ v.worker # Null => /\ workers[v.worker].alive
                        /\ workers[v.worker].boot = v.boot
                        /\ a.boot = v.boot
  /\ a.worker = v.worker

\* The evidence the selection saw is current, and the region is in service.
RegionCommits(v) ==
  /\ evidence[v.region].status = "CURRENT"
  /\ evidence[v.region].has =>
       evidence[v.region].latest.generation = v.evidenceGeneration
  /\ regions[v.region].lifecycle
       \notin {"DRAINING", "UNAVAILABLE", "REVALIDATION_REQUIRED", "RETIRED"}

\* Of the calls on one reservation only its state and its region's ledger change.
OnReservation(i, a) ==
  /\ authorityAcceptable(a)
  /\ UNCHANGED <<epoch, providers, domains, regions, evidence, attachments,
                 poolMemberships, pools, policies, consumers, workers>>

commitReservation(i, a) ==
  LET v == reservations[i] IN
  /\ OnReservation(i, a)
  /\ v.state = "RESERVED"
  /\ BindingsCurrent(v)
  /\ HolderCommits(v, a)
  /\ RegionCommits(v)
  /\ CanMove(ledger[v.region], "reserved", "committed", v.bytes)
  /\ ledger' = [ledger EXCEPT ![v.region] = commit(@, v.bytes)]
  /\ reservations' = [reservations EXCEPT ![i].state = "COMMITTED"]

\* What was released may be released again.
Fault_Releasable_Twice(state) ==
  state \in {"RESERVED", "COMMITTED", "ACTIVE", "RELEASED"}

Releasable(state) == state \in {"RESERVED", "COMMITTED", "ACTIVE"}

\* releaseReservation: any acceptable authority may, in any lifecycle.
releaseReservation(i, a) ==
  LET v    == reservations[i]
      from == IF v.state = "RESERVED" THEN "reserved" ELSE "committed" IN
  /\ OnReservation(i, a)
  /\ Releasable(v.state)
  /\ RegionGeneration(v.region) = v.regionGeneration
  /\ v.epoch = epoch
  /\ CanMove(ledger[v.region], from, "free", v.bytes)
  /\ ledger' = [ledger EXCEPT ![v.region] =
       IF v.state = "RESERVED" THEN release(@, v.bytes) ELSE complete(@, v.bytes)]
  /\ reservations' = [reservations EXCEPT ![i].state = "RELEASED"]

-----------------------------------------------------------------------------
Init ==
  /\ epoch \in Epochs
  /\ providers = [p \in Providers |-> NoProvider]
  /\ domains = [d \in Domains |-> 0]
  /\ regions = [r \in Regions |-> NoRegion]
  /\ ledger = [r \in Regions |-> NewLedger(0)]
  /\ evidence = [r \in Regions |-> NoEvidence]
  /\ attachments = [r \in Regions |-> <<>>]
  /\ poolMemberships = [r \in Regions |-> {}]
  /\ pools = [p \in Pools |-> NoPool]
  /\ policies = [p \in Policies |-> NoPolicy]
  /\ consumers = [c \in Consumers |-> 0]
  /\ reservations = [i \in ReservationIds |-> NoReservation]
  /\ workers = [w \in Workers |-> NoWorker]

Register(a) ==
  \/ \E c \in Consumers, g \in Generations : registerConsumer(c, g, a)
  \/ \E d \in ProviderDescriptors : registerProvider(d, a)
  \/ \E d \in Domains, g \in Generations : registerDomain(d, g, a)
  \/ \E d \in RegionDescriptors : registerRegion(d, a)
  \/ \E d \in PoolDescriptors : registerPool(d, a)
  \/ \E d \in PolicyDescriptors : registerPolicy(d, a)
  \/ \E p \in Pools, r \in Regions, g \in Generations :
       addPoolMember(p, [region |-> r, generation |-> g], a)
  \/ \E p \in Pools, r \in Regions : removePoolMember(p, r, a)

Publish(a) ==
  \/ \E e \in Evidences : publishRegionEvidence(e, a)
  \/ \E e \in Evidences : publishRefusedLate(e, a)
  \/ \E t \in Attachments : publishAttachment(t, a)

Transition(a) ==
  \/ \E r \in Regions : beginDrain(r, a)
  \/ \E r \in Regions : completeDrain(r, a)
  \/ \E r \in Regions : cancelDrain(r, a)
  \/ \E r \in Regions : markUnavailable(r, a)
  \/ \E r \in Regions : recoverRegion(r, a)
  \/ \E r \in Regions : retireRegion(r, a)
  \/ \E p \in Providers : retireProvider(p, a)

Work(a) ==
  \/ \E w \in Workers, b \in Boots, e \in Epochs : registerWorker(w, b, e, a)
  \/ \E w \in Workers : markWorkerDead(w, a)

Reserve(a) ==
  \/ \E q \in Requests : requestReservation(q, a)
  \/ \E i \in ReservationIds : commitReservation(i, a)
  \/ \E i \in ReservationIds : releaseReservation(i, a)

Next ==
  \/ \E e \in Epochs : setEpoch(e)
  \/ \E a \in Authorities :
       Register(a) \/ Publish(a) \/ Transition(a) \/ Work(a) \/ Reserve(a)

Spec == Init /\ [][Next]_vars
=============================================================================
