---------------------------- MODULE FabricState ----------------------------
(***************************************************************************)
(* The state of one Fabric (struct Fabric::Impl, src/src/fabric_impl.hpp)   *)
(* and the authority every call presents. All of it is guarded by the one   *)
(* shared_mutex stateMtx, held from the first check of a call to its last   *)
(* assignment, so a call is one atomic step.                                *)
(*                                                                          *)
(* Identities, generations, boots and epochs are the integers of id.hpp;    *)
(* 0 is the null id. A map of the code is a function over all the ids of    *)
(* the instance whose absent entries have generation (or boot) 0.           *)
(***************************************************************************)
EXTENDS Integers, Sequences, FiniteSets, Lifecycle, CapacityLedger

CONSTANTS
  Providers, Regions, Pools, Policies, Consumers, Domains, Workers,
  Generations,          \* the generations a descriptor may carry
  Boots,                \* the WorkerBootIds a worker may present
  Epochs,               \* the CoordinatorEpochs of the instance
  MaxReservations,      \* bound: how often requestReservation succeeds
  \* The arguments callers present, as records with the code's field names.
  ProviderDescriptors, RegionDescriptors, PoolDescriptors, PolicyDescriptors,
  Evidences, Attachments, Requests, Authorities

Null == 0

ReservationIds == 1..MaxReservations

ASSUME IdAssumption ==
  /\ \A S \in {Providers, Regions, Pools, Policies, Consumers, Domains,
               Workers, Generations, Boots, Epochs} : S \subseteq Nat \ {0}
  /\ MaxReservations \in Nat
  /\ Epochs # {}

ASSUME DescriptorAssumption ==
  /\ \A d \in ProviderDescriptors :
       d.id \in Providers /\ d.generation \in Generations
  /\ \A d \in RegionDescriptors :
       /\ d.id \in Regions /\ d.generation \in Generations
       /\ d.provider \in Providers /\ d.totalCapacityBytes \in Words
  /\ \A d \in PoolDescriptors :
       /\ d.id \in Pools /\ d.generation \in Generations
       /\ d.members \in Seq([region : Regions, generation : Generations])
  /\ \A d \in PolicyDescriptors :
       /\ d.id \in Policies /\ d.generation \in Generations
       /\ d.allowDegraded \in BOOLEAN

ASSUME MessageAssumption ==
  /\ \A e \in Evidences :
       /\ e.region \in Regions /\ e.sourceProvider \in Providers
       /\ e.generation \in Nat /\ e.onlineCapacityBytes \in Words
       /\ e.worker \in Workers \cup {Null} /\ e.boot \in Boots \cup {Null}
  /\ \A t \in Attachments : t.region \in Regions
  /\ \A q \in Requests :
       /\ q.consumer \in Consumers /\ q.requiredBytes \in Words
       /\ q.policy \in Policies \cup {Null}
       /\ q.preferredPool \in Pools \cup {Null}
       /\ q.consumerGeneration \in Nat
  /\ \A a \in Authorities :
       /\ a.epoch \in Epochs /\ a.worker \in Workers \cup {Null}
       /\ a.boot \in Boots \cup {Null}

VARIABLES
  epoch,            \* CoordinatorEpoch of this fabric
  providers,        \* id -> ProviderRecord
  domains,          \* id -> generation of the DomainRecord
  regions,          \* id -> descriptor and lifecycle of the RegionRecord
  ledger,           \* id -> RegionRecord::ledger
  evidence,         \* id -> RegionRecord::latest, hasEvidence, evidenceStatus
  attachments,      \* id -> RegionRecord::attachments
  poolMemberships,  \* id -> the pools of RegionRecord::poolMemberships
  pools,            \* id -> generation and members of the PoolRecord
  policies,         \* id -> PolicyRecord
  consumers,        \* id -> generation of the ConsumerRecord
  reservations,     \* id -> ReservationRecord
  workers           \* id -> WorkerRecord

vars == <<epoch, providers, domains, regions, ledger, evidence, attachments,
          poolMemberships, pools, policies, consumers, reservations, workers>>

-----------------------------------------------------------------------------
(***************************************************************************)
(* Entries that are absent, and the values a fresh record has.              *)
(***************************************************************************)
NoDescriptor  == [generation |-> 0]
NoProvider    == [descriptor |-> NoDescriptor, lifecycle |-> "DISCOVERED"]
NoRegion      == [descriptor |-> NoDescriptor, lifecycle |-> "DECLARED"]
NoPool        == [generation |-> 0, members |-> <<>>]
NoPolicy      == [generation |-> 0, allowDegraded |-> FALSE]
NoWorker      == [boot |-> Null, registeredEpoch |-> 0, alive |-> FALSE]
NoReservation ==
  [state |-> "ABSENT", bytes |-> 0,
   consumer |-> Null, consumerGeneration |-> 0,
   provider |-> Null, providerGeneration |-> 0,
   region |-> Null, regionGeneration |-> 0,
   pool |-> Null, poolGeneration |-> 0,
   policy |-> Null, policyGeneration |-> 0,
   evidenceGeneration |-> 0, worker |-> Null, boot |-> Null, epoch |-> 0]

\* A RegionEvidence as it is default-constructed in a RegionRecord. The
\* record's health, reachable, latencyNs and bandwidthBytesPerSec are copies
\* of latest, written only together with it.
NoRegionEvidence ==
  [generation |-> 0, sourceProvider |-> Null, sourceProviderGeneration |-> 0,
   region |-> Null, regionGeneration |-> 0, worker |-> Null, boot |-> Null,
   epoch |-> 0, health |-> "UNKNOWN", reachable |-> FALSE,
   onlineCapacityBytes |-> 0, latencyNs |-> 0, bandwidthBytesPerSec |-> 0,
   locality |-> "UNKNOWN"]
NoEvidence == [latest |-> NoRegionEvidence, has |-> FALSE, status |-> "UNKNOWN"]

ProviderGeneration(p) == providers[p].descriptor.generation
RegionGeneration(r)   == regions[r].descriptor.generation
BackingProvider(r)    == regions[r].descriptor.provider

KnownProviders == {p \in Providers : ProviderGeneration(p) # 0}
KnownRegions   == {r \in Regions : RegionGeneration(r) # 0}
RegionsOf(p)   == {r \in KnownRegions : BackingProvider(r) = p}

\* The records of the maps: ProviderRecord, RegionRecord (split over three of
\* the variables), PoolRecord, PolicyRecord, WorkerRecord.
ProviderRecords == [descriptor : ProviderDescriptors \cup {NoDescriptor},
                    lifecycle : ProviderStates]
RegionRecords   == [descriptor : RegionDescriptors \cup {NoDescriptor},
                    lifecycle : RegionStates]
EvidenceRecords == [latest : Evidences \cup {NoRegionEvidence}, has : BOOLEAN,
                    status : {"UNKNOWN", "CURRENT", "REVALIDATION_REQUIRED"}]
PoolMembers     == [region : Regions, generation : Generations]
PoolRecords     == [generation : Nat, members : Seq(PoolMembers)]
PolicyRecords   == [generation : Nat, allowDegraded : BOOLEAN]
WorkerRecords   == [boot : Boots \cup {Null}, registeredEpoch : Epochs \cup {0},
                    alive : BOOLEAN]

\* struct Reservation, without the selection ids and the diagnostics.
Reservations ==
  [state : ReservationStates \cup {"ABSENT"}, bytes : Words,
   consumer : Consumers \cup {Null}, consumerGeneration : Nat,
   provider : Providers \cup {Null}, providerGeneration : Nat,
   region : Regions \cup {Null}, regionGeneration : Nat,
   pool : Pools \cup {Null}, poolGeneration : Nat,
   policy : Policies \cup {Null}, policyGeneration : Nat,
   evidenceGeneration : Nat, worker : Workers \cup {Null},
   boot : Boots \cup {Null}, epoch : Nat]

-----------------------------------------------------------------------------
\* The epoch is compared, the worker's boot and liveness are not: a dead or
\* replaced process keeps its authority.
Fault_authorityAcceptable_EpochOnly(a) ==
  /\ a.epoch = epoch
  /\ a.worker # Null => workers[a.worker].boot # Null

\* authorityAcceptableLocked: an operator (null worker) of this epoch, or the
\* current boot of a live worker registered under this epoch.
authorityAcceptable(a) ==
  /\ a.epoch = epoch
  /\ a.worker # Null => /\ workers[a.worker].boot # Null
                        /\ workers[a.worker].boot = a.boot
                        /\ workers[a.worker].alive
                        /\ workers[a.worker].registeredEpoch = epoch
=============================================================================
