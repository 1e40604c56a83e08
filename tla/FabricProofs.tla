---------------------------- MODULE FabricProofs ----------------------------
(***************************************************************************)
(* The fabric is type correct, its ledgers stay closed, and the cross-check *)
(* audit() makes between the ledgers and the reservations holds, for every  *)
(* choice of ids, descriptors, messages and bounds.                         *)
(***************************************************************************)
EXTENDS FabricProperties, FiniteSetTheorems, SequenceTheorems, TLAPS

-----------------------------------------------------------------------------
(***************************************************************************)
(* The ledger of capacity.hpp is closed under its operations, whatever the  *)
(* word width: no counter leaves its word and the buckets keep adding up to *)
(* the online capacity.                                                     *)
(***************************************************************************)
\* A new ledger is empty and closed: the constructor.
LEMMA NewLedgerClosed ==
  ASSUME NEW total \in Words
  PROVE  /\ NewLedger(total) \in Ledgers
         /\ invariant(NewLedger(total))
         /\ NewLedger(total)["total"] = total
         /\ NewLedger(total)["reserved"] = 0
         /\ NewLedger(total)["committed"] = 0
         /\ NewLedger(total)["unavailable"] = 0
  BY MaxWordAssumption
  DEF NewLedger, Ledgers, Counters, Buckets, Words, invariant, Obligations

\* A publication accepted by setOnline leaves a closed ledger, with the promised
\* and withdrawn bytes as they were.
LEMMA SetOnlineClosed ==
  ASSUME NEW l \in Ledgers, NEW bytes \in Words, CanSetOnline(l, bytes)
  PROVE  /\ setOnline(l, bytes) \in Ledgers
         /\ invariant(setOnline(l, bytes))
         /\ \A c \in Counters \ {"online", "free"} :
              setOnline(l, bytes)[c] = l[c]
  BY MaxWordAssumption
  DEF setOnline, CanSetOnline, Ledgers, Counters, Buckets, Words, invariant,
      Obligations

\* A move between two buckets, accepted or refused, keeps every counter a word
\* and touches no third counter.
LEMMA MoveFrame ==
  ASSUME NEW l \in Ledgers, NEW from \in Buckets, NEW to \in Buckets,
         from # to, NEW n \in Nat
  PROVE  /\ Move(l, from, to, n) \in Ledgers
         /\ \A c \in Counters \ {from, to} : Move(l, from, to, n)[c] = l[c]
         /\ Move(l, from, to, n)[from] + Move(l, from, to, n)[to]
              = l[from] + l[to]
<1>1. /\ from \in Counters /\ to \in Counters
      /\ \A c \in Counters : l[c] \in 0..MaxWord
  BY DEF Ledgers, Counters, Words
<1>2. CASE CanMove(l, from, to, n)
  <2>1. Move(l, from, to, n) = [l EXCEPT ![from] = @ - n, ![to] = @ + n]
    BY <1>2 DEF Move
  <2>2. l[from] - n \in 0..MaxWord /\ l[to] + n \in 0..MaxWord
    BY <1>1, <1>2, MaxWordAssumption DEF CanMove
  <2> QED BY <1>1, <2>1, <2>2 DEF Ledgers, Words
<1>3. CASE ~CanMove(l, from, to, n)
  BY <1>1, <1>3 DEF Move
<1> QED BY <1>2, <1>3

\* A move keeps a closed ledger closed.
LEMMA MoveClosed ==
  ASSUME NEW l \in Ledgers, NEW from \in Buckets, NEW to \in Buckets,
         from # to, NEW n \in Nat, invariant(l)
  PROVE  invariant(Move(l, from, to, n))
<1> DEFINE k == Move(l, from, to, n)
<1>1. /\ k \in Ledgers
      /\ \A c \in Counters \ {from, to} : k[c] = l[c]
      /\ k[from] + k[to] = l[from] + l[to]
  BY MoveFrame
<1> HIDE DEF k
<1>2. \A c \in Counters : k[c] \in Nat /\ l[c] \in Nat
  BY <1>1, MaxWordAssumption DEF Ledgers, Words
<1>3. k["online"] = l["online"] /\ k["total"] = l["total"]
  BY <1>1 DEF Counters, Buckets
<1>4. k["free"] + Obligations(k) = l["free"] + Obligations(l)
  BY <1>1, <1>2 DEF Obligations, Counters, Buckets
<1>5. invariant(k)
  BY <1>3, <1>4 DEF invariant
<1> QED BY <1>5 DEF k

-----------------------------------------------------------------------------
(***************************************************************************)
(* Facts about the operators the actions are built from.                    *)
(***************************************************************************)
\* The pairs Bytes(S) counts are finitely many.
LEMMA BytesFinite ==
  ASSUME NEW S \in SUBSET ReservationIds
  PROVE  IsFiniteSet({x \in S \X (1..MaxWord) : x[2] <= reservations[x[1]].bytes})
<1>1. IsFiniteSet(ReservationIds)
  BY FS_Interval, IdAssumption DEF ReservationIds
<1>2. IsFiniteSet(S)
  BY <1>1, FS_Subset
<1>3. IsFiniteSet(1..MaxWord)
  BY FS_Interval, MaxWordAssumption
<1>4. IsFiniteSet(S \X (1..MaxWord))
  BY <1>2, <1>3, FS_Product
<1> QED BY <1>4, FS_Subset

\* The bytes of a set of reservations are a number.
LEMMA BytesNat ==
  ASSUME NEW S \in SUBSET ReservationIds
  PROVE  Bytes(S) \in Nat
  BY BytesFinite, FS_CardinalityType DEF Bytes

\* Fencing keeps a ledger a ledger, its total, and its closure: Impl::fence.
LEMMA FencedLedgerClosed ==
  ASSUME NEW l \in Ledgers, NEW S \in SUBSET ReservationIds, NEW r
  PROVE  /\ FencedLedger(l, S, r) \in Ledgers
         /\ FencedLedger(l, S, r)["total"] = l["total"]
         /\ invariant(l) => invariant(FencedLedger(l, S, r))
<1> DEFINE m == Bytes(S \cap Holding(r, {"RESERVED"}))
           n == Bytes(S \cap Holding(r, Promised))
           k == Move(l, "reserved", "unavailable", m)
<1>1. m \in Nat /\ n \in Nat
  BY BytesNat
<1>2. FencedLedger(l, S, r) = Move(k, "committed", "unavailable", n)
  BY DEF FencedLedger, fenceReserved, fenceCommitted
<1> HIDE DEF m, n
<1>3. k \in Ledgers /\ k["total"] = l["total"] /\ (invariant(l) => invariant(k))
  BY <1>1, MoveFrame, MoveClosed DEF Buckets, Counters
<1> HIDE DEF k
<1>4. LET j == Move(k, "committed", "unavailable", n)
      IN  j \in Ledgers /\ j["total"] = k["total"] /\ (invariant(k) => invariant(j))
  BY <1>1, <1>3, MoveFrame, MoveClosed DEF Buckets, Counters
<1> QED BY <1>2, <1>3, <1>4

\* Reservations that change state stay reservations.
LEMMA MovedType ==
  ASSUME reservations \in [ReservationIds -> Reservations],
         NEW S, NEW outcome \in [AnyState -> AnyState]
  PROVE  Moved(S, outcome) \in [ReservationIds -> Reservations]
<1> SUFFICES ASSUME NEW i \in ReservationIds
             PROVE  [reservations[i] EXCEPT !.state = outcome[@]] \in Reservations
  BY DEF Moved
<1>1. reservations[i] \in Reservations /\ outcome[reservations[i].state] \in AnyState
  BY DEF Reservations, AnyState
<1> QED BY <1>1 DEF Reservations, AnyState

\* The fences lead from states to states.
LEMMA OutcomeTypes ==
  /\ FenceOutcome \in [AnyState -> AnyState]
  /\ EpochOutcome \in [AnyState -> AnyState]
  /\ [s \in AnyState |-> "CANCELLED"] \in [AnyState -> AnyState]
<1>1. FenceOutcome \in [AnyState -> AnyState]
  BY DEF FenceOutcome, AnyState, ReservationStates, Promised
<1>2. EpochOutcome \in [AnyState -> AnyState]
  BY <1>1 DEF EpochOutcome, AnyState, ReservationStates
<1>3. [s \in AnyState |-> "CANCELLED"] \in [AnyState -> AnyState]
  BY DEF AnyState, ReservationStates
<1> QED BY <1>1, <1>2, <1>3

\* What Fence leaves of the reservations and of the ledgers.
LEMMA FenceType ==
  ASSUME TypeOK, NEW S \in SUBSET ReservationIds, Fence(S)
  PROVE  /\ reservations' \in [ReservationIds -> Reservations]
         /\ ledger' \in [Regions -> Ledgers]
         /\ \A r \in Regions :
              /\ ledger'[r]["total"] = ledger[r]["total"]
              /\ invariant(ledger[r]) => invariant(ledger'[r])
<1>1. reservations' \in [ReservationIds -> Reservations]
  BY MovedType, OutcomeTypes DEF TypeOK, Fence
<1>2. \A r \in Regions : ledger[r] \in Ledgers
  BY DEF TypeOK
<1>3. ledger' = [r \in Regions |-> FencedLedger(ledger[r], S, r)]
  BY DEF Fence
<1>4. \A r \in Regions :
         /\ FencedLedger(ledger[r], S, r) \in Ledgers
         /\ FencedLedger(ledger[r], S, r)["total"] = ledger[r]["total"]
         /\ invariant(ledger[r]) => invariant(FencedLedger(ledger[r], S, r))
  BY <1>2, FencedLedgerClosed
<1> QED BY <1>1, <1>3, <1>4

\* A registered region has a descriptor, whose provider has an id: registerRegion
\* refuses any other, and neither is ever erased.
LEMMA KnownRegionType ==
  ASSUME TypeOK, NEW r \in KnownRegions
  PROVE  /\ r \in Regions
         /\ regions[r].descriptor \in RegionDescriptors
         /\ BackingProvider(r) \in Providers
         /\ RegionGeneration(r) \in Nat
<1>1. r \in Regions /\ regions[r].descriptor.generation # 0
  BY DEF KnownRegions, RegionGeneration
<1>2. regions[r].descriptor \in RegionDescriptors \cup {NoDescriptor}
  BY <1>1 DEF TypeOK, RegionRecords
<1>3. regions[r].descriptor \in RegionDescriptors
  BY <1>1, <1>2 DEF NoDescriptor
<1> QED
  BY <1>1, <1>3, DescriptorAssumption, IdAssumption
  DEF BackingProvider, RegionGeneration

\* The generation of a provider is a number, 0 if it is not registered.
LEMMA ProviderGenerationType ==
  ASSUME TypeOK, NEW p \in Providers
  PROVE  ProviderGeneration(p) \in Nat
<1>1. providers[p].descriptor \in ProviderDescriptors \cup {NoDescriptor}
  BY DEF TypeOK, ProviderRecords
<1>2. Generations \subseteq Nat
  BY IdAssumption
<1>3. CASE providers[p].descriptor \in ProviderDescriptors
  BY <1>2, <1>3, DescriptorAssumption DEF ProviderGeneration
<1>4. CASE providers[p].descriptor = NoDescriptor
  BY <1>4 DEF ProviderGeneration, NoDescriptor
<1> QED BY <1>1, <1>3, <1>4

\* A record keeps its type when its lifecycle or its status is set.
LEMMA RecordUpdates ==
  /\ \A x \in RegionRecords, to \in RegionStates :
       /\ [x EXCEPT !.lifecycle = to] \in RegionRecords
       /\ [x EXCEPT !.lifecycle = to].descriptor = x.descriptor
  /\ \A x \in ProviderRecords, to \in ProviderStates :
       [x EXCEPT !.lifecycle = to] \in ProviderRecords
  /\ \A x \in EvidenceRecords :
       /\ [x EXCEPT !.status = "REVALIDATION_REQUIRED"] \in EvidenceRecords
       /\ [x EXCEPT !.has = FALSE, !.status = "UNKNOWN"] \in EvidenceRecords
  /\ \A x \in RegionRecords :
       Revalidated(x) \in RegionRecords /\ Revalidated(x).descriptor = x.descriptor
<1>1. \A x \in RegionRecords, to \in RegionStates :
        /\ [x EXCEPT !.lifecycle = to] \in RegionRecords
        /\ [x EXCEPT !.lifecycle = to].descriptor = x.descriptor
  BY DEF RegionRecords
<1>2. \A x \in ProviderRecords, to \in ProviderStates :
        [x EXCEPT !.lifecycle = to] \in ProviderRecords
  BY DEF ProviderRecords
<1>3. \A x \in EvidenceRecords :
        /\ [x EXCEPT !.status = "REVALIDATION_REQUIRED"] \in EvidenceRecords
        /\ [x EXCEPT !.has = FALSE, !.status = "UNKNOWN"] \in EvidenceRecords
  BY DEF EvidenceRecords
<1>4. "REVALIDATION_REQUIRED" \in RegionStates
  BY DEF RegionStates
<1>5. \A x \in RegionRecords :
        Revalidated(x) \in RegionRecords /\ Revalidated(x).descriptor = x.descriptor
  BY <1>1, <1>4 DEF Revalidated
<1> QED BY <1>1, <1>2, <1>3, <1>5

\* A call that sets the lifecycle of one region.
LEMMA SetLifecycleType ==
  ASSUME TypeOK, NEW r \in Regions, NEW to \in RegionStates, SetLifecycle(r, to)
  PROVE  /\ regions' \in [Regions -> RegionRecords]
         /\ \A s \in Regions : regions'[s].descriptor = regions[s].descriptor
<1>1. regions \in [Regions -> RegionRecords] /\ regions[r] \in RegionRecords
  BY DEF TypeOK
<1>2. /\ [regions[r] EXCEPT !.lifecycle = to] \in RegionRecords
      /\ [regions[r] EXCEPT !.lifecycle = to].descriptor = regions[r].descriptor
  BY <1>1, RecordUpdates
<1>3. /\ regions'[r] = [regions[r] EXCEPT !.lifecycle = to]
      /\ \A s \in Regions : s # r => regions'[s] = regions[s]
      /\ regions' = [s \in Regions |-> regions'[s]]
  BY <1>1 DEF SetLifecycle
<1>4. \A s \in Regions : /\ regions'[s] \in RegionRecords
                         /\ regions'[s].descriptor = regions[s].descriptor
  BY <1>1, <1>2, <1>3
<1> QED BY <1>3, <1>4

\* The inductive invariant: LedgerClosed alone is not inductive, for a step adds
\* and compares counters that must be words and looks up descriptors.
IInv == TypeOK /\ LedgerClosed

\* A step that keeps every descriptor, every total and the closure of every
\* ledger keeps LedgerClosed.
LEMMA LedgerClosedStep ==
  ASSUME LedgerClosed,
         \A r \in Regions :
           /\ regions'[r].descriptor = regions[r].descriptor
           /\ ledger'[r]["total"] = ledger[r]["total"]
           /\ invariant(ledger[r]) => invariant(ledger'[r])
  PROVE  LedgerClosed'
  BY DEF LedgerClosed, KnownRegions, RegionGeneration

-----------------------------------------------------------------------------
(***************************************************************************)
(* The invariant, action by action.                                         *)
(***************************************************************************)
\* setEpoch.
LEMMA SetEpochStep ==
  ASSUME IInv, NEW e \in Epochs, setEpoch(e)
  PROVE  IInv'
<1>1. workers' \in [Workers -> WorkerRecords]
  BY DEF IInv, TypeOK, setEpoch, WorkerRecords
<1>2. evidence' \in [Regions -> EvidenceRecords]
  BY RecordUpdates DEF IInv, TypeOK, setEpoch
<1>3. /\ regions' \in [Regions -> RegionRecords]
      /\ \A r \in Regions : regions'[r].descriptor = regions[r].descriptor
  BY RecordUpdates DEF IInv, TypeOK, setEpoch
<1>4. reservations' \in [ReservationIds -> Reservations]
  BY MovedType, OutcomeTypes DEF IInv, TypeOK, setEpoch
<1>5. /\ ledger' \in [Regions -> Ledgers]
      /\ \A r \in Regions : /\ ledger'[r]["total"] = ledger[r]["total"]
                            /\ invariant(ledger[r]) => invariant(ledger'[r])
  <2>1. ledger' = [r \in Regions |-> FencedLedger(ledger[r], ReservationIds, r)]
    BY DEF setEpoch
  <2>2. \A r \in Regions : ledger[r] \in Ledgers
    BY DEF IInv, TypeOK
  <2> QED BY <2>1, <2>2, FencedLedgerClosed
<1>6. TypeOK'
  BY <1>1, <1>2, <1>3, <1>4, <1>5 DEF IInv, TypeOK, setEpoch
<1> QED BY <1>3, <1>5, <1>6, LedgerClosedStep DEF IInv

\* registerConsumer and registerDomain.
LEMMA RegisterIdStep ==
  ASSUME IInv, NEW a \in Authorities, NEW g \in Generations,
         \/ \E c \in Consumers : registerConsumer(c, g, a)
         \/ \E d \in Domains : registerDomain(d, g, a)
  PROVE  IInv'
<1>1. g \in Nat
  BY IdAssumption
<1>2. CASE \E c \in Consumers : registerConsumer(c, g, a)
  <2>1. TypeOK'
    BY <1>1, <1>2 DEF IInv, TypeOK, registerConsumer
  <2>2. LedgerClosed'
    BY <1>2, LedgerClosedStep DEF IInv, registerConsumer
  <2> QED BY <2>1, <2>2 DEF IInv
<1>3. CASE \E d \in Domains : registerDomain(d, g, a)
  <2>1. TypeOK'
    BY <1>1, <1>3 DEF IInv, TypeOK, registerDomain
  <2>2. LedgerClosed'
    BY <1>3, LedgerClosedStep DEF IInv, registerDomain
  <2> QED BY <2>1, <2>2 DEF IInv
<1> QED BY <1>2, <1>3

\* registerProvider.
LEMMA RegisterProviderStep ==
  ASSUME IInv, NEW a \in Authorities, NEW d \in ProviderDescriptors,
         registerProvider(d, a)
  PROVE  IInv'
<1>1. providers' \in [Providers -> ProviderRecords]
  BY DEF IInv, TypeOK, registerProvider, ProviderRecords, ProviderStates
<1>2. /\ reservations' \in [ReservationIds -> Reservations]
      /\ ledger' \in [Regions -> Ledgers]
      /\ \A r \in Regions : /\ ledger'[r]["total"] = ledger[r]["total"]
                            /\ invariant(ledger[r]) => invariant(ledger'[r])
  BY FenceType DEF IInv, registerProvider
<1>3. /\ regions' \in [Regions -> RegionRecords]
      /\ \A r \in Regions : regions'[r].descriptor = regions[r].descriptor
  <2>1. "REVALIDATION_REQUIRED" \in RegionStates
    BY DEF RegionStates
  <2> QED BY <2>1, RecordUpdates DEF IInv, TypeOK, registerProvider
<1>4. evidence' \in [Regions -> EvidenceRecords]
  BY RecordUpdates DEF IInv, TypeOK, registerProvider
<1>5. TypeOK'
  BY <1>1, <1>2, <1>3, <1>4 DEF IInv, TypeOK, registerProvider
<1> QED BY <1>2, <1>3, <1>5, LedgerClosedStep DEF IInv

\* registerRegion: the only step that replaces a ledger.
LEMMA RegisterRegionStep ==
  ASSUME IInv, NEW a \in Authorities, NEW d \in RegionDescriptors,
         registerRegion(d, a)
  PROVE  IInv'
<1> DEFINE new == NewLedger(d.totalCapacityBytes)
<1>1. reservations' \in [ReservationIds -> Reservations]
  BY MovedType, OutcomeTypes DEF IInv, TypeOK, registerRegion
<1>2. /\ d.id \in Regions /\ new \in Ledgers /\ invariant(new)
      /\ new["total"] = d.totalCapacityBytes
  BY NewLedgerClosed, DescriptorAssumption
<1> HIDE DEF new
<1>3. /\ ledger \in [Regions -> Ledgers] /\ regions \in [Regions -> RegionRecords]
      /\ ledger' = [ledger EXCEPT ![d.id] = new]
      /\ regions' = [regions EXCEPT ![d.id] =
                       [descriptor |-> d, lifecycle |-> "DECLARED"]]
  BY DEF IInv, TypeOK, registerRegion, new
<1>4. ledger' \in [Regions -> Ledgers] /\ regions' \in [Regions -> RegionRecords]
  BY <1>2, <1>3 DEF RegionRecords, RegionStates
<1>5. evidence' \in [Regions -> EvidenceRecords]
  BY DEF IInv, TypeOK, registerRegion, NoEvidence, EvidenceRecords
<1>6. attachments' \in [Regions -> Seq(Attachments)]
  <2>1. <<>> \in Seq(Attachments)
    OBVIOUS
  <2> QED BY <2>1 DEF IInv, TypeOK, registerRegion
<1>7. poolMemberships' \in [Regions -> SUBSET Pools]
  BY DEF IInv, TypeOK, registerRegion
<1>8. TypeOK'
  BY <1>1, <1>4, <1>5, <1>6, <1>7 DEF IInv, TypeOK, registerRegion
<1>9. LedgerClosed'
  <2> SUFFICES ASSUME NEW r \in Regions
               PROVE  /\ invariant(ledger'[r])
                      /\ regions'[r].descriptor.generation # 0 =>
                           ledger'[r]["total"]
                             = regions'[r].descriptor.totalCapacityBytes
    BY DEF LedgerClosed, KnownRegions, RegionGeneration
  <2>1. CASE r = d.id
    BY <1>2, <1>3, <2>1
  <2>2. CASE r # d.id
    BY <1>3, <2>2 DEF IInv, LedgerClosed, KnownRegions, RegionGeneration
  <2> QED BY <2>1, <2>2
<1> QED BY <1>8, <1>9 DEF IInv

\* registerPool.
LEMMA RegisterPoolStep ==
  ASSUME IInv, NEW a \in Authorities, NEW d \in PoolDescriptors,
         registerPool(d, a)
  PROVE  IInv'
<1>1. /\ reservations' \in [ReservationIds -> Reservations]
      /\ ledger' \in [Regions -> Ledgers]
      /\ \A r \in Regions : /\ ledger'[r]["total"] = ledger[r]["total"]
                            /\ invariant(ledger[r]) => invariant(ledger'[r])
  BY FenceType DEF IInv, registerPool
<1>2. d.generation \in Nat /\ d.members \in Seq(PoolMembers)
  BY DescriptorAssumption, IdAssumption DEF PoolMembers
<1>3. pools' \in [Pools -> PoolRecords]
  BY <1>2 DEF IInv, TypeOK, registerPool, PoolRecords
<1>4. TypeOK'
  BY <1>1, <1>3 DEF IInv, TypeOK, registerPool
<1>5. LedgerClosed'
  BY <1>1, LedgerClosedStep DEF IInv, registerPool
<1> QED BY <1>4, <1>5 DEF IInv

\* registerPolicy.
LEMMA RegisterPolicyStep ==
  ASSUME IInv, NEW a \in Authorities, NEW d \in PolicyDescriptors,
         registerPolicy(d, a)
  PROVE  IInv'
<1>1. /\ reservations' \in [ReservationIds -> Reservations]
      /\ ledger' \in [Regions -> Ledgers]
      /\ \A r \in Regions : /\ ledger'[r]["total"] = ledger[r]["total"]
                            /\ invariant(ledger[r]) => invariant(ledger'[r])
  BY FenceType DEF IInv, registerPolicy
<1>2. d.generation \in Nat /\ d.allowDegraded \in BOOLEAN
  BY DescriptorAssumption, IdAssumption
<1>3. policies' \in [Policies -> PolicyRecords]
  BY <1>2 DEF IInv, TypeOK, registerPolicy, PolicyRecords
<1>4. TypeOK'
  BY <1>1, <1>3 DEF IInv, TypeOK, registerPolicy
<1>5. LedgerClosed'
  BY <1>1, LedgerClosedStep DEF IInv, registerPolicy
<1> QED BY <1>4, <1>5 DEF IInv

\* addPoolMember.
LEMMA AddPoolMemberStep ==
  ASSUME IInv, NEW a \in Authorities, NEW p \in Pools, NEW m \in PoolMembers,
         addPoolMember(p, m, a)
  PROVE  IInv'
<1>1. pools[p].members \in Seq(PoolMembers)
  BY DEF IInv, TypeOK, PoolRecords
<1>2. Append(pools[p].members, m) \in Seq(PoolMembers)
  BY <1>1
<1>3. pools' \in [Pools -> PoolRecords]
  BY <1>2 DEF IInv, TypeOK, addPoolMember, PoolRecords
<1>4. poolMemberships' \in [Regions -> SUBSET Pools]
  BY DEF IInv, TypeOK, addPoolMember
<1>5. TypeOK'
  BY <1>3, <1>4 DEF IInv, TypeOK, addPoolMember
<1>6. LedgerClosed'
  BY LedgerClosedStep DEF IInv, addPoolMember
<1> QED BY <1>5, <1>6 DEF IInv

\* What is left of a sequence when only the places of K are kept is a sequence.
LEMMA InOrderType ==
  ASSUME NEW T, NEW s \in Seq(T), NEW K \in SUBSET DOMAIN s, NEW f \in InOrder(K)
  PROVE  [k \in DOMAIN f |-> s[f[k]]] \in Seq(T)
<1>1. Len(s) \in Nat /\ DOMAIN s = 1..Len(s)
  OBVIOUS
<1>2. IsFiniteSet(1..Len(s))
  BY <1>1, FS_Interval
<1>3. IsFiniteSet(K)
  BY <1>1, <1>2, FS_Subset
<1>4. Cardinality(K) \in Nat
  BY <1>3, FS_CardinalityType
<1>5. f \in [1..Cardinality(K) -> K]
  BY DEF InOrder
<1>6. [k \in DOMAIN f |-> s[f[k]]] \in [1..Cardinality(K) -> T]
  BY <1>5
<1> QED BY <1>4, <1>6, SeqDef

\* removePoolMember.
LEMMA RemovePoolMemberStep ==
  ASSUME IInv, NEW a \in Authorities, NEW p \in Pools, NEW r \in Regions,
         removePoolMember(p, r, a)
  PROVE  IInv'
<1> DEFINE K == DOMAIN pools[p].members \ Entries(p, r)
<1>1. PICK f \in InOrder(K) :
        pools' = [pools EXCEPT ![p].members = [k \in DOMAIN f |-> @[f[k]]]]
  BY DEF removePoolMember
<1>2. pools[p].members \in Seq(PoolMembers)
  BY DEF IInv, TypeOK, PoolRecords
<1>3. [k \in DOMAIN f |-> pools[p].members[f[k]]] \in Seq(PoolMembers)
  BY <1>2, InOrderType
<1>4. pools' \in [Pools -> PoolRecords]
  BY <1>1, <1>3 DEF IInv, TypeOK, PoolRecords
<1>5. poolMemberships' \in [Regions -> SUBSET Pools]
  BY DEF IInv, TypeOK, removePoolMember
<1>6. TypeOK'
  BY <1>4, <1>5 DEF IInv, TypeOK, removePoolMember
<1>7. LedgerClosed'
  BY LedgerClosedStep DEF IInv, removePoolMember
<1> QED BY <1>6, <1>7 DEF IInv

\* What publishRegionEvidence and publishRefusedLate write.
LEMMA RecordType ==
  ASSUME IInv, NEW a \in Authorities, NEW e \in Evidences,
         Publishable(e, a), Record(e)
  PROVE  /\ e.region \in KnownRegions
         /\ ledger' \in [Regions -> Ledgers]
         /\ \A r \in Regions : /\ ledger'[r]["total"] = ledger[r]["total"]
                               /\ invariant(ledger[r]) => invariant(ledger'[r])
         /\ evidence' \in [Regions -> EvidenceRecords]
<1>1. e.region \in KnownRegions /\ CanSetOnline(ledger[e.region], e.onlineCapacityBytes)
  BY DEF Publishable, HeaderCurrent
<1>2. e.region \in Regions /\ e.onlineCapacityBytes \in Words
  BY MessageAssumption
<1>3. ledger \in [Regions -> Ledgers] /\ ledger[e.region] \in Ledgers
  BY <1>2 DEF IInv, TypeOK
<1> DEFINE l == setOnline(ledger[e.region], e.onlineCapacityBytes)
<1>4. l \in Ledgers /\ invariant(l) /\ l["total"] = ledger[e.region]["total"]
  BY <1>1, <1>2, <1>3, SetOnlineClosed DEF Counters, Buckets
<1>5. ledger' = [ledger EXCEPT ![e.region] = l]
  BY DEF Record
<1>6. evidence' \in [Regions -> EvidenceRecords]
  BY DEF IInv, TypeOK, Record, EvidenceRecords
<1> HIDE DEF l
<1> QED BY <1>1, <1>2, <1>3, <1>4, <1>5, <1>6

\* publishRegionEvidence.
LEMMA PublishStep ==
  ASSUME IInv, NEW a \in Authorities, NEW e \in Evidences,
         publishRegionEvidence(e, a)
  PROVE  IInv'
<1>1. /\ e.region \in KnownRegions
      /\ ledger' \in [Regions -> Ledgers]
      /\ \A r \in Regions : /\ ledger'[r]["total"] = ledger[r]["total"]
                            /\ invariant(ledger[r]) => invariant(ledger'[r])
      /\ evidence' \in [Regions -> EvidenceRecords]
  BY RecordType DEF publishRegionEvidence
<1>2. TargetLifecycle(e.health) \in RegionStates
  BY DEF TargetLifecycle, RegionStates
<1>3. /\ regions' \in [Regions -> RegionRecords]
      /\ \A r \in Regions : regions'[r].descriptor = regions[r].descriptor
  <2>1. SetLifecycle(e.region, TargetLifecycle(e.health))
    BY DEF publishRegionEvidence, SetLifecycle
  <2>2. e.region \in Regions
    BY MessageAssumption
  <2> QED BY <1>2, <2>1, <2>2, SetLifecycleType DEF IInv
<1>4. providers' \in [Providers -> ProviderRecords]
  <2>1. "ONLINE" \in ProviderStates
    BY DEF ProviderStates
  <2>2. BackingProvider(e.region) \in Providers
    BY <1>1, KnownRegionType DEF IInv
  <2> QED BY <2>1, <2>2, RecordUpdates DEF IInv, TypeOK, publishRegionEvidence
<1>5. TypeOK'
  BY <1>1, <1>3, <1>4 DEF IInv, TypeOK, publishRegionEvidence, Record
<1> QED BY <1>1, <1>3, <1>5, LedgerClosedStep DEF IInv

\* The publication that fails after it has written.
LEMMA PublishRefusedStep ==
  ASSUME IInv, NEW a \in Authorities, NEW e \in Evidences,
         publishRefusedLate(e, a)
  PROVE  IInv'
<1>1. /\ ledger' \in [Regions -> Ledgers]
      /\ \A r \in Regions : /\ ledger'[r]["total"] = ledger[r]["total"]
                            /\ invariant(ledger[r]) => invariant(ledger'[r])
      /\ evidence' \in [Regions -> EvidenceRecords]
  BY RecordType DEF publishRefusedLate
<1>2. TypeOK'
  BY <1>1 DEF IInv, TypeOK, publishRefusedLate, Record
<1>3. LedgerClosed'
  BY <1>1, LedgerClosedStep DEF IInv, publishRefusedLate
<1> QED BY <1>2, <1>3 DEF IInv

\* publishAttachment.
LEMMA PublishAttachmentStep ==
  ASSUME IInv, NEW a \in Authorities, NEW t \in Attachments,
         publishAttachment(t, a)
  PROVE  IInv'
<1> DEFINE s == attachments[t.region]
<1>1. t.region \in Regions /\ attachments \in [Regions -> Seq(Attachments)]
  BY MessageAssumption DEF IInv, TypeOK
<1>2. s \in Seq(Attachments)
  BY <1>1
<1>3. [k \in DOMAIN s |-> IF s[k].id = t.id THEN t ELSE s[k]] \in Seq(Attachments)
  <2>1. Len(s) \in Nat /\ s \in [1..Len(s) -> Attachments]
    BY <1>2
  <2>2. [k \in DOMAIN s |-> IF s[k].id = t.id THEN t ELSE s[k]]
          \in [1..Len(s) -> Attachments]
    BY <2>1
  <2> QED BY <2>1, <2>2, SeqDef
<1>4. Append(s, t) \in Seq(Attachments)
  BY <1>2
<1>5. attachments' \in [Regions -> Seq(Attachments)]
  BY <1>1, <1>3, <1>4 DEF publishAttachment
<1>6. TypeOK'
  BY <1>5 DEF IInv, TypeOK, publishAttachment
<1>7. LedgerClosed'
  BY LedgerClosedStep DEF IInv, publishAttachment
<1> QED BY <1>6, <1>7 DEF IInv

\* A move between two buckets keeps a ledger a ledger, its total, its closure.
LEMMA MoveKeeps ==
  ASSUME NEW l \in Ledgers, NEW from \in Buckets, NEW to \in Buckets, from # to,
         NEW n \in Nat
  PROVE  /\ Move(l, from, to, n) \in Ledgers
         /\ Move(l, from, to, n)["total"] = l["total"]
         /\ invariant(l) => invariant(Move(l, from, to, n))
<1>1. "total" \in Counters \ {from, to}
  BY DEF Counters, Buckets
<1> QED BY <1>1, MoveFrame, MoveClosed

\* A call that changes the ledger of one region.
LEMMA OneLedgerStep ==
  ASSUME TypeOK, NEW r, NEW l, ledger' = [ledger EXCEPT ![r] = l],
         r \in Regions => /\ l \in Ledgers /\ l["total"] = ledger[r]["total"]
                          /\ invariant(ledger[r]) => invariant(l)
  PROVE  /\ ledger' \in [Regions -> Ledgers]
         /\ \A s \in Regions : /\ ledger'[s]["total"] = ledger[s]["total"]
                               /\ invariant(ledger[s]) => invariant(ledger'[s])
<1>1. ledger \in [Regions -> Ledgers]
  BY DEF TypeOK
<1> QED BY <1>1

\* Every bucket of a ledger holds a number of bytes.
LEMMA BucketNat ==
  ASSUME TypeOK, NEW r \in Regions
  PROVE  ledger[r] \in Ledgers /\ \A c \in Counters : ledger[r][c] \in Nat
  BY MaxWordAssumption DEF TypeOK, Ledgers, Words

\* A region call that keeps the invariant: the parts that are left to show.
LEMMA RegionCallStep ==
  ASSUME IInv, NEW a \in Authorities, NEW r \in Regions, NEW to \in RegionStates,
         OnKnownRegion(r, a), SetLifecycle(r, to),
         providers' \in [Providers -> ProviderRecords],
         evidence' \in [Regions -> EvidenceRecords],
         reservations' \in [ReservationIds -> Reservations],
         ledger' \in [Regions -> Ledgers],
         \A s \in Regions : /\ ledger'[s]["total"] = ledger[s]["total"]
                            /\ invariant(ledger[s]) => invariant(ledger'[s])
  PROVE  IInv'
<1>1. /\ regions' \in [Regions -> RegionRecords]
      /\ \A s \in Regions : regions'[s].descriptor = regions[s].descriptor
  BY SetLifecycleType DEF IInv
<1>2. TypeOK'
  BY <1>1 DEF IInv, TypeOK, OnKnownRegion
<1> QED BY <1>1, <1>2, LedgerClosedStep DEF IInv

\* The provider that follows a drain stays a provider.
LEMMA ProviderFollowsType ==
  ASSUME TypeOK, NEW r, NEW from, NEW to \in ProviderStates,
         ProviderFollows(r, from, to)
  PROVE  providers' \in [Providers -> ProviderRecords]
<1> DEFINE p == BackingProvider(r)
<1>1. providers \in [Providers -> ProviderRecords]
  BY DEF TypeOK
<1>2. p \in Providers => [providers[p] EXCEPT !.lifecycle = to] \in ProviderRecords
  BY <1>1, RecordUpdates
<1>3. \/ providers' = providers
      \/ providers' = [providers EXCEPT ![p].lifecycle = to]
  BY DEF ProviderFollows
<1> QED BY <1>1, <1>2, <1>3

\* beginDrain.
LEMMA BeginDrainStep ==
  ASSUME IInv, NEW a \in Authorities, NEW r \in Regions, beginDrain(r, a)
  PROVE  IInv'
<1> DEFINE n        == Bytes(Holding(r, {"RESERVED"}))
           released == Move(ledger[r], "reserved", "free", n)
           l        == Move(released, "free", "draining", released["free"])
<1>1. n \in Nat /\ ledger[r] \in Ledgers
  BY BytesNat, BucketNat DEF Holding, IInv
<1>2. /\ released \in Ledgers /\ released["total"] = ledger[r]["total"]
      /\ invariant(ledger[r]) => invariant(released)
  BY <1>1, MoveKeeps DEF Buckets
<1>3. released["free"] \in Nat
  BY <1>2, MaxWordAssumption DEF Ledgers, Words, Counters, Buckets
<1>4. ledger' = [ledger EXCEPT ![r] = l]
  BY DEF beginDrain, release, drain
<1>5. reservations' \in [ReservationIds -> Reservations]
  BY MovedType, OutcomeTypes DEF IInv, TypeOK, beginDrain
<1> HIDE DEF released, n
<1>6. /\ l \in Ledgers /\ l["total"] = released["total"]
      /\ invariant(released) => invariant(l)
  BY <1>2, <1>3, MoveKeeps DEF Buckets
<1> HIDE DEF l
<1>7. /\ ledger' \in [Regions -> Ledgers]
      /\ \A s \in Regions : /\ ledger'[s]["total"] = ledger[s]["total"]
                            /\ invariant(ledger[s]) => invariant(ledger'[s])
  BY <1>2, <1>4, <1>6, OneLedgerStep DEF IInv
<1>8. providers' \in [Providers -> ProviderRecords]
  BY ProviderFollowsType DEF IInv, beginDrain, ProviderStates
<1> QED
  BY <1>5, <1>7, <1>8, RegionCallStep
  DEF IInv, TypeOK, beginDrain, RegionStates

\* completeDrain.
LEMMA CompleteDrainStep ==
  ASSUME IInv, NEW a \in Authorities, NEW r \in Regions, completeDrain(r, a)
  PROVE  IInv'
<1> DEFINE l == Move(ledger[r], "draining", "unavailable", ledger[r]["draining"])
<1>1. ledger[r] \in Ledgers /\ ledger[r]["draining"] \in Nat
  BY BucketNat DEF IInv, Counters, Buckets
<1>2. /\ l \in Ledgers /\ l["total"] = ledger[r]["total"]
      /\ invariant(ledger[r]) => invariant(l)
  BY <1>1, MoveKeeps DEF Buckets
<1>3. ledger' = [ledger EXCEPT ![r] = l]
  BY DEF completeDrain, endDrain
<1> HIDE DEF l
<1>4. /\ ledger' \in [Regions -> Ledgers]
      /\ \A s \in Regions : /\ ledger'[s]["total"] = ledger[s]["total"]
                            /\ invariant(ledger[s]) => invariant(ledger'[s])
  BY <1>2, <1>3, OneLedgerStep DEF IInv
<1>5. providers' \in [Providers -> ProviderRecords]
  BY ProviderFollowsType DEF IInv, completeDrain, ProviderStates
<1> QED
  BY <1>4, <1>5, RegionCallStep
  DEF IInv, TypeOK, completeDrain, RegionStates

\* cancelDrain.
LEMMA CancelDrainStep ==
  ASSUME IInv, NEW a \in Authorities, NEW r \in Regions, cancelDrain(r, a)
  PROVE  IInv'
<1> DEFINE l == Move(ledger[r], "draining", "free", ledger[r]["draining"])
<1>1. ledger[r] \in Ledgers /\ ledger[r]["draining"] \in Nat
  BY BucketNat DEF IInv, Counters, Buckets
<1>2. /\ l \in Ledgers /\ l["total"] = ledger[r]["total"]
      /\ invariant(ledger[r]) => invariant(l)
  BY <1>1, MoveKeeps DEF Buckets
<1>3. ledger' = [ledger EXCEPT ![r] = l]
  BY DEF cancelDrain, undrain
<1> HIDE DEF l
<1>4. /\ ledger' \in [Regions -> Ledgers]
      /\ \A s \in Regions : /\ ledger'[s]["total"] = ledger[s]["total"]
                            /\ invariant(ledger[s]) => invariant(ledger'[s])
  BY <1>2, <1>3, OneLedgerStep DEF IInv
<1> QED
  BY <1>4, RegionCallStep DEF IInv, TypeOK, cancelDrain, RegionStates

\* markUnavailable.
LEMMA MarkUnavailableStep ==
  ASSUME IInv, NEW a \in Authorities, NEW r \in Regions, markUnavailable(r, a)
  PROVE  IInv'
<1> DEFINE k == Move(ledger[r], "free", "unavailable", ledger[r]["free"])
           l == FencedLedger(k, OnRegion(r), r)
<1>1. ledger[r] \in Ledgers /\ ledger[r]["free"] \in Nat
  BY BucketNat DEF IInv, Counters, Buckets
<1>2. /\ k \in Ledgers /\ k["total"] = ledger[r]["total"]
      /\ invariant(ledger[r]) => invariant(k)
  BY <1>1, MoveKeeps DEF Buckets
<1>3. ledger' = [ledger EXCEPT ![r] = l]
  BY DEF markUnavailable, withdraw
<1> HIDE DEF k
<1>4. l \in Ledgers /\ l["total"] = k["total"] /\ (invariant(k) => invariant(l))
  BY <1>2, FencedLedgerClosed DEF OnRegion
<1> HIDE DEF l
<1>5. /\ ledger' \in [Regions -> Ledgers]
      /\ \A s \in Regions : /\ ledger'[s]["total"] = ledger[s]["total"]
                            /\ invariant(ledger[s]) => invariant(ledger'[s])
  BY <1>2, <1>3, <1>4, OneLedgerStep DEF IInv
<1>6. reservations' \in [ReservationIds -> Reservations]
  BY MovedType, OutcomeTypes DEF IInv, TypeOK, markUnavailable
<1> QED
  BY <1>5, <1>6, RegionCallStep DEF IInv, TypeOK, markUnavailable, RegionStates

\* recoverRegion.
LEMMA RecoverRegionStep ==
  ASSUME IInv, NEW a \in Authorities, NEW r \in Regions, recoverRegion(r, a)
  PROVE  IInv'
<1> DEFINE l == Move(ledger[r], "unavailable", "free", ledger[r]["unavailable"])
<1>1. ledger[r] \in Ledgers /\ ledger[r]["unavailable"] \in Nat
  BY BucketNat DEF IInv, Counters, Buckets
<1>2. /\ l \in Ledgers /\ l["total"] = ledger[r]["total"]
      /\ invariant(ledger[r]) => invariant(l)
  BY <1>1, MoveKeeps DEF Buckets
<1>3. ledger' = [ledger EXCEPT ![r] = l]
  BY DEF recoverRegion, restore
<1> HIDE DEF l
<1>4. /\ ledger' \in [Regions -> Ledgers]
      /\ \A s \in Regions : /\ ledger'[s]["total"] = ledger[s]["total"]
                            /\ invariant(ledger[s]) => invariant(ledger'[s])
  BY <1>2, <1>3, OneLedgerStep DEF IInv
<1>5. evidence' \in [Regions -> EvidenceRecords]
  BY DEF IInv, TypeOK, recoverRegion, EvidenceRecords
<1> QED
  BY <1>4, <1>5, RegionCallStep DEF IInv, TypeOK, recoverRegion, RegionStates

\* retireRegion.
LEMMA RetireRegionStep ==
  ASSUME IInv, NEW a \in Authorities, NEW r \in Regions, retireRegion(r, a)
  PROVE  IInv'
<1>1. /\ reservations' \in [ReservationIds -> Reservations]
      /\ ledger' \in [Regions -> Ledgers]
      /\ \A s \in Regions : /\ ledger'[s]["total"] = ledger[s]["total"]
                            /\ invariant(ledger[s]) => invariant(ledger'[s])
  BY FenceType DEF IInv, retireRegion, OnRegion
<1> QED
  BY <1>1, RegionCallStep DEF IInv, TypeOK, retireRegion, RegionStates

\* retireProvider.
LEMMA RetireProviderStep ==
  ASSUME IInv, NEW a \in Authorities, NEW p \in Providers, retireProvider(p, a)
  PROVE  IInv'
<1>1. /\ reservations' \in [ReservationIds -> Reservations]
      /\ ledger' \in [Regions -> Ledgers]
      /\ \A s \in Regions : /\ ledger'[s]["total"] = ledger[s]["total"]
                            /\ invariant(ledger[s]) => invariant(ledger'[s])
  BY FenceType DEF IInv, retireProvider
<1>2. /\ regions' \in [Regions -> RegionRecords]
      /\ \A r \in Regions : regions'[r].descriptor = regions[r].descriptor
  <2>1. "RETIRED" \in RegionStates
    BY DEF RegionStates
  <2> QED BY <2>1, RecordUpdates DEF IInv, TypeOK, retireProvider
<1>3. providers' \in [Providers -> ProviderRecords]
  <2>1. "RETIRED" \in ProviderStates
    BY DEF ProviderStates
  <2>2. [providers[p] EXCEPT !.lifecycle = "RETIRED"] \in ProviderRecords
    BY <2>1, RecordUpdates DEF IInv, TypeOK
  <2> QED BY <2>2 DEF IInv, TypeOK, retireProvider
<1>4. TypeOK'
  BY <1>1, <1>2, <1>3 DEF IInv, TypeOK, retireProvider
<1> QED BY <1>1, <1>2, <1>4, LedgerClosedStep DEF IInv

\* registerWorker.
LEMMA RegisterWorkerStep ==
  ASSUME IInv, NEW a \in Authorities, NEW w \in Workers, NEW b \in Boots,
         NEW e \in Epochs, registerWorker(w, b, e, a)
  PROVE  IInv'
<1>1. workers' \in [Workers -> WorkerRecords]
  BY DEF IInv, TypeOK, registerWorker, WorkerRecords
<1>2. TypeOK'
  BY <1>1 DEF IInv, TypeOK, registerWorker
<1>3. LedgerClosed'
  BY LedgerClosedStep DEF IInv, registerWorker
<1> QED BY <1>2, <1>3 DEF IInv

\* markWorkerDead.
LEMMA MarkWorkerDeadStep ==
  ASSUME IInv, NEW a \in Authorities, NEW w \in Workers, markWorkerDead(w, a)
  PROVE  IInv'
<1>1. workers' \in [Workers -> WorkerRecords]
  BY DEF IInv, TypeOK, markWorkerDead, WorkerRecords
<1>2. evidence' \in [Regions -> EvidenceRecords]
  BY RecordUpdates DEF IInv, TypeOK, markWorkerDead
<1>3. /\ regions' \in [Regions -> RegionRecords]
      /\ \A r \in Regions : regions'[r].descriptor = regions[r].descriptor
  BY RecordUpdates DEF IInv, TypeOK, markWorkerDead
<1>4. /\ reservations' \in [ReservationIds -> Reservations]
      /\ ledger' \in [Regions -> Ledgers]
      /\ \A s \in Regions : /\ ledger'[s]["total"] = ledger[s]["total"]
                            /\ invariant(ledger[s]) => invariant(ledger'[s])
  BY FenceType DEF IInv, markWorkerDead
<1>5. TypeOK'
  BY <1>1, <1>2, <1>3, <1>4 DEF IInv, TypeOK, markWorkerDead
<1> QED BY <1>3, <1>4, <1>5, LedgerClosedStep DEF IInv

\* The reservation requestReservation makes is bound to numbers.
LEMMA NewReservationType ==
  ASSUME TypeOK, NEW q \in Requests, NEW r \in KnownRegions, NEW a \in Authorities
  PROVE  NewReservation(q, r, a) \in Reservations
<1>1. /\ r \in Regions /\ BackingProvider(r) \in Providers
      /\ RegionGeneration(r) \in Nat
      /\ ProviderGeneration(BackingProvider(r)) \in Nat
  BY KnownRegionType, ProviderGenerationType
<1>2. /\ q.consumer \in Consumers /\ q.requiredBytes \in Words
      /\ q.policy \in Policies \cup {Null} /\ q.preferredPool \in Pools \cup {Null}
      /\ q.consumerGeneration \in Nat
  BY MessageAssumption
<1>3. /\ a.epoch \in Nat /\ a.worker \in Workers \cup {Null}
      /\ a.boot \in Boots \cup {Null}
  BY MessageAssumption, IdAssumption
<1>4. (IF q.preferredPool = Null THEN 0 ELSE pools[q.preferredPool].generation) \in Nat
  BY <1>2 DEF TypeOK, PoolRecords
<1>5. (IF q.policy = Null THEN 0 ELSE policies[q.policy].generation) \in Nat
  BY <1>2 DEF TypeOK, PolicyRecords
<1>6. (IF evidence[r].has THEN evidence[r].latest.generation ELSE 0) \in Nat
  <2>1. evidence[r].latest \in Evidences \cup {NoRegionEvidence}
    BY <1>1 DEF TypeOK, EvidenceRecords
  <2>2. NoRegionEvidence.generation \in Nat
    BY DEF NoRegionEvidence
  <2> QED BY <2>1, <2>2, MessageAssumption
<1> QED
  BY <1>1, <1>2, <1>3, <1>4, <1>5, <1>6
  DEF NewReservation, Reservations, ReservationStates

\* A call on reservations that keeps the invariant: the parts left to show.
LEMMA ReservationCallStep ==
  ASSUME IInv,
         UNCHANGED <<epoch, providers, domains, regions, evidence, attachments,
                     poolMemberships, pools, policies, consumers, workers>>,
         reservations' \in [ReservationIds -> Reservations],
         ledger' \in [Regions -> Ledgers],
         \A s \in Regions : /\ ledger'[s]["total"] = ledger[s]["total"]
                            /\ invariant(ledger[s]) => invariant(ledger'[s])
  PROVE  IInv'
<1>1. TypeOK'
  BY DEF IInv, TypeOK
<1>2. LedgerClosed'
  BY LedgerClosedStep DEF IInv
<1> QED BY <1>1, <1>2 DEF IInv

\* requestReservation.
LEMMA RequestReservationStep ==
  ASSUME IInv, NEW a \in Authorities, NEW q \in Requests, requestReservation(q, a)
  PROVE  IInv'
<1>1. PICK r \in TopRegions(q), i \in ReservationIds :
        /\ ledger' = [ledger EXCEPT ![r] = reserve(@, q.requiredBytes)]
        /\ reservations' = [reservations EXCEPT ![i] = NewReservation(q, r, a)]
  BY DEF requestReservation
<1>2. r \in KnownRegions /\ r \in Regions
  BY DEF TopRegions, EligibleRegions, Candidates, KnownRegions
<1>3. reservations' \in [ReservationIds -> Reservations]
  <2>1. NewReservation(q, r, a) \in Reservations
    BY <1>2, NewReservationType DEF IInv
  <2> QED BY <1>1, <2>1 DEF IInv, TypeOK
<1> DEFINE l == Move(ledger[r], "free", "reserved", q.requiredBytes)
<1>4. ledger[r] \in Ledgers /\ q.requiredBytes \in Nat
  BY <1>2, BucketNat, MessageAssumption, MaxWordAssumption DEF IInv, Words
<1>5. /\ l \in Ledgers /\ l["total"] = ledger[r]["total"]
      /\ invariant(ledger[r]) => invariant(l)
  BY <1>4, MoveKeeps DEF Buckets
<1>6. ledger' = [ledger EXCEPT ![r] = l]
  BY <1>1 DEF reserve
<1> HIDE DEF l
<1>7. /\ ledger' \in [Regions -> Ledgers]
      /\ \A s \in Regions : /\ ledger'[s]["total"] = ledger[s]["total"]
                            /\ invariant(ledger[s]) => invariant(ledger'[s])
  BY <1>5, <1>6, OneLedgerStep DEF IInv
<1> QED BY <1>3, <1>7, ReservationCallStep DEF requestReservation

\* The state of one reservation is set.
LEMMA SetStateType ==
  ASSUME TypeOK, NEW i \in ReservationIds, NEW to \in ReservationStates,
         reservations' = [reservations EXCEPT ![i].state = to]
  PROVE  /\ reservations' \in [ReservationIds -> Reservations]
         /\ reservations[i].bytes \in Nat
<1>1. reservations[i] \in Reservations
  BY DEF TypeOK
<1>2. [reservations[i] EXCEPT !.state = to] \in Reservations
  BY <1>1 DEF Reservations
<1>3. reservations[i].bytes \in Nat
  BY <1>1, MaxWordAssumption DEF Reservations, Words
<1> QED BY <1>2, <1>3 DEF TypeOK

\* commitReservation and releaseReservation: bytes leave one bucket for another.
LEMMA ReservationMoveStep ==
  ASSUME IInv, NEW a \in Authorities, NEW i \in ReservationIds,
         NEW from \in Buckets, NEW to \in Buckets, from # to,
         NEW state \in ReservationStates, OnReservation(i, a),
         reservations' = [reservations EXCEPT ![i].state = state],
         ledger' = [ledger EXCEPT ![reservations[i].region] =
                      Move(@, from, to, reservations[i].bytes)]
  PROVE  IInv'
<1> DEFINE r == reservations[i].region
           l == Move(ledger[r], from, to, reservations[i].bytes)
<1>1. /\ reservations' \in [ReservationIds -> Reservations]
      /\ reservations[i].bytes \in Nat
  BY SetStateType DEF IInv
<1>2. r \in Regions => /\ l \in Ledgers /\ l["total"] = ledger[r]["total"]
                       /\ invariant(ledger[r]) => invariant(l)
  BY <1>1, BucketNat, MoveKeeps DEF IInv
<1>3. ledger' = [ledger EXCEPT ![r] = l]
  OBVIOUS
<1> HIDE DEF r, l
<1>4. /\ ledger' \in [Regions -> Ledgers]
      /\ \A s \in Regions : /\ ledger'[s]["total"] = ledger[s]["total"]
                            /\ invariant(ledger[s]) => invariant(ledger'[s])
  BY <1>2, <1>3, OneLedgerStep DEF IInv
<1> QED BY <1>1, <1>4, ReservationCallStep DEF OnReservation

\* commitReservation.
LEMMA CommitReservationStep ==
  ASSUME IInv, NEW a \in Authorities, NEW i \in ReservationIds,
         commitReservation(i, a)
  PROVE  IInv'
  BY ReservationMoveStep
  DEF commitReservation, commit, Buckets, ReservationStates

\* releaseReservation.
LEMMA ReleaseReservationStep ==
  ASSUME IInv, NEW a \in Authorities, NEW i \in ReservationIds,
         releaseReservation(i, a)
  PROVE  IInv'
<1>1. CASE reservations[i].state = "RESERVED"
  BY <1>1, ReservationMoveStep
  DEF releaseReservation, release, Buckets, ReservationStates
<1>2. CASE reservations[i].state # "RESERVED"
  BY <1>2, ReservationMoveStep
  DEF releaseReservation, complete, Buckets, ReservationStates
<1> QED BY <1>1, <1>2

-----------------------------------------------------------------------------
\* A fabric starts empty and closed.
LEMMA InitIInv == Init => IInv
<1> SUFFICES ASSUME Init PROVE IInv
  OBVIOUS
<1>1. NewLedger(0) \in Ledgers /\ invariant(NewLedger(0))
  BY NewLedgerClosed, MaxWordAssumption DEF Words
<1>2. /\ NoProvider \in ProviderRecords /\ NoRegion \in RegionRecords
      /\ NoEvidence \in EvidenceRecords /\ NoPool \in PoolRecords
      /\ NoPolicy \in PolicyRecords /\ NoWorker \in WorkerRecords
  BY DEF NoProvider, NoRegion, NoEvidence, NoPool, NoPolicy, NoWorker,
         ProviderRecords, RegionRecords, EvidenceRecords, PoolRecords,
         PolicyRecords, WorkerRecords, ProviderStates, RegionStates
<1>3. NoReservation \in Reservations
  BY MaxWordAssumption DEF NoReservation, Reservations, Words
<1>4. TypeOK
  BY <1>1, <1>2, <1>3 DEF Init, TypeOK
<1>5. LedgerClosed
  BY <1>1 DEF Init, LedgerClosed, KnownRegions, RegionGeneration, NoRegion,
              NoDescriptor
<1> QED BY <1>4, <1>5 DEF IInv

\* Every call keeps the invariant, and so does a stuttering step.
LEMMA NextIInv == IInv /\ [Next]_vars => IInv'
<1> SUFFICES ASSUME IInv, [Next]_vars PROVE IInv'
  OBVIOUS
<1>1. CASE UNCHANGED vars
  <2>1. TypeOK'
    BY <1>1 DEF IInv, TypeOK, vars
  <2>2. LedgerClosed'
    BY <1>1, LedgerClosedStep DEF IInv, vars
  <2> QED BY <2>1, <2>2 DEF IInv
<1>2. CASE \E e \in Epochs : setEpoch(e)
  BY <1>2, SetEpochStep
<1>3. ASSUME NEW a \in Authorities, Register(a) PROVE IInv'
  <2>1. \A r \in Regions, g \in Generations :
          [region |-> r, generation |-> g] \in PoolMembers
    BY DEF PoolMembers
  <2> QED
    BY <1>3, <2>1, RegisterIdStep, RegisterProviderStep, RegisterRegionStep,
       RegisterPoolStep, RegisterPolicyStep, AddPoolMemberStep,
       RemovePoolMemberStep
    DEF Register
<1>4. ASSUME NEW a \in Authorities, Publish(a) PROVE IInv'
  BY <1>4, PublishStep, PublishRefusedStep, PublishAttachmentStep DEF Publish
<1>5. ASSUME NEW a \in Authorities, Transition(a) PROVE IInv'
  BY <1>5, BeginDrainStep, CompleteDrainStep, CancelDrainStep,
     MarkUnavailableStep, RecoverRegionStep, RetireRegionStep,
     RetireProviderStep
  DEF Transition
<1>6. ASSUME NEW a \in Authorities, Work(a) PROVE IInv'
  BY <1>6, RegisterWorkerStep, MarkWorkerDeadStep DEF Work
<1>7. ASSUME NEW a \in Authorities, Reserve(a) PROVE IInv'
  BY <1>7, RequestReservationStep, CommitReservationStep, ReleaseReservationStep
  DEF Reserve
<1> QED BY <1>1, <1>2, <1>3, <1>4, <1>5, <1>6, <1>7 DEF Next

\* The inductive invariant holds of every behaviour of the fabric.
THEOREM Inductive == Spec => []IInv
  BY InitIInv, NextIInv, PTL DEF Spec

\* Every map of the fabric stays of the shape its struct declares.
THEOREM TypeCorrect == Spec => []TypeOK
<1>1. IInv => TypeOK
  BY DEF IInv
<1> QED BY <1>1, Inductive, PTL

\* The five buckets of every region always add up to its online capacity, which
\* never exceeds the total its descriptor states: the closure of the accounting
\* in capacity.hpp survives every call of the fabric.
THEOREM AccountingClosed == Spec => []LedgerClosed
<1>1. IInv => LedgerClosed
  BY DEF IInv
<1> QED BY <1>1, Inductive, PTL

-----------------------------------------------------------------------------
(***************************************************************************)
(* Bytes and Holding for a given map R of reservations, so that they can be *)
(* compared before and after a step.                                        *)
(***************************************************************************)
Pairs(R, S) == {x \in S \X (1..MaxWord) : x[2] <= R[x[1]].bytes}
BytesOf(R, S) == Cardinality(Pairs(R, S))
HoldingOf(R, r, states) ==
  {i \in ReservationIds : R[i].region = r /\ R[i].state \in states}

\* Ledger l agrees with the reservations R on region r.
Audited(R, l, r) ==
  /\ l["reserved"] = BytesOf(R, HoldingOf(R, r, {"RESERVED"}))
  /\ l["committed"] = BytesOf(R, HoldingOf(R, r, Promised))

\* Finitely many pairs, so a number of bytes.
LEMMA PairsFinite ==
  ASSUME NEW R, NEW S \in SUBSET ReservationIds
  PROVE  IsFiniteSet(Pairs(R, S)) /\ BytesOf(R, S) \in Nat
<1>1. IsFiniteSet(ReservationIds)
  BY FS_Interval, IdAssumption DEF ReservationIds
<1>2. IsFiniteSet(S)
  BY <1>1, FS_Subset
<1>3. IsFiniteSet(1..MaxWord)
  BY FS_Interval, MaxWordAssumption
<1>4. IsFiniteSet(S \X (1..MaxWord))
  BY <1>2, <1>3, FS_Product
<1>5. IsFiniteSet(Pairs(R, S))
  BY <1>4, FS_Subset DEF Pairs
<1> QED BY <1>5, FS_CardinalityType DEF BytesOf

\* The bytes of two disjoint sets add up.
LEMMA BytesAdd ==
  ASSUME NEW R, NEW S \in SUBSET ReservationIds, NEW T \in SUBSET ReservationIds,
         S \cap T = {}
  PROVE  BytesOf(R, S \cup T) = BytesOf(R, S) + BytesOf(R, T)
<1>1. Pairs(R, S \cup T) = Pairs(R, S) \cup Pairs(R, T)
  BY DEF Pairs
<1>2. Pairs(R, S) \cap Pairs(R, T) = {}
  BY DEF Pairs
<1>3. /\ IsFiniteSet(Pairs(R, S)) /\ IsFiniteSet(Pairs(R, T))
      /\ BytesOf(R, S) \in Nat /\ BytesOf(R, T) \in Nat
  BY PairsFinite
<1>4. Cardinality(Pairs(R, S) \cup Pairs(R, T))
        = Cardinality(Pairs(R, S)) + Cardinality(Pairs(R, T)) - Cardinality({})
  BY <1>2, <1>3, FS_Union
<1>5. Cardinality({}) = 0
  BY FS_EmptySet
<1> DEFINE m == Cardinality(Pairs(R, S))
           n == Cardinality(Pairs(R, T))
<1>6. m \in Nat /\ n \in Nat
  BY <1>3 DEF BytesOf
<1>7. Cardinality(Pairs(R, S \cup T)) = m + n
  <2>1. Cardinality(Pairs(R, S) \cup Pairs(R, T)) = m + n - 0
    BY <1>4, <1>5
  <2> HIDE DEF m, n
  <2>2. m + n - 0 = m + n
    BY <1>6
  <2> QED BY <1>1, <2>1, <2>2
<1> QED BY <1>7 DEF BytesOf

\* No reservation, no bytes.
LEMMA BytesEmpty ==
  ASSUME NEW R
  PROVE  BytesOf(R, {}) = 0
<1>1. Pairs(R, {}) = {}
  BY DEF Pairs
<1> QED BY <1>1, FS_EmptySet DEF BytesOf

\* One reservation has the bytes it states.
LEMMA BytesSingle ==
  ASSUME NEW R, NEW i \in ReservationIds, R[i].bytes \in Words
  PROVE  BytesOf(R, {i}) = R[i].bytes
<1> DEFINE n == R[i].bytes
<1>1. n \in Nat /\ n <= MaxWord /\ MaxWord \in Nat
  BY MaxWordAssumption DEF Words
<1>2. Pairs(R, {i}) = {i} \X (1..n)
  BY <1>1 DEF Pairs
<1> HIDE DEF n
<1>3. IsFiniteSet({i}) /\ Cardinality({i}) = 1
  BY FS_Singleton
<1>4. IsFiniteSet(1..n) /\ Cardinality(1..n) = IF 1 > n THEN 0 ELSE n - 1 + 1
  BY <1>1, FS_Interval
<1>5. Cardinality(1..n) = n
  BY <1>1, <1>4
<1>6. Cardinality({i} \X (1..n)) = Cardinality({i}) * Cardinality(1..n)
  BY <1>3, <1>4, FS_Product
<1>7. Cardinality({i} \X (1..n)) = n
  BY <1>1, <1>3, <1>5, <1>6
<1> QED BY <1>2, <1>7 DEF BytesOf, n

\* Bytes do not change with the state of a reservation.
LEMMA BytesSame ==
  ASSUME NEW R, NEW Q, NEW S, \A i \in S : Q[i].bytes = R[i].bytes
  PROVE  BytesOf(Q, S) = BytesOf(R, S)
<1>1. Pairs(Q, S) = Pairs(R, S)
  BY DEF Pairs
<1> QED BY <1>1 DEF BytesOf

\* The definitions above are those of the fabric, before and after a step.
LEMMA AuditedIs ==
  /\ \A S : Bytes(S) = BytesOf(reservations, S)
  /\ \A r, states : Holding(r, states) = HoldingOf(reservations, r, states)
  /\ AuditAccounting <=> \A r \in Regions : Audited(reservations, ledger[r], r)
  /\ AuditAccounting' <=> \A r \in Regions : Audited(reservations', ledger'[r], r)
<1>1. \A S : Bytes(S) = BytesOf(reservations, S)
  BY DEF Bytes, BytesOf, Pairs
<1>2. \A r, states : Holding(r, states) = HoldingOf(reservations, r, states)
  BY DEF Holding, HoldingOf
<1>3. AuditAccounting <=> \A r \in Regions : Audited(reservations, ledger[r], r)
  BY <1>1, <1>2 DEF AuditAccounting, Audited
<1>4. AuditAccounting' <=> \A r \in Regions : Audited(reservations', ledger'[r], r)
  BY DEF AuditAccounting, Audited, Bytes, BytesOf, Pairs, Holding, HoldingOf
<1> QED BY <1>1, <1>2, <1>3, <1>4

-----------------------------------------------------------------------------
\* A closed ledger refuses no move of bytes that are there: the target cannot
\* overflow, for it and the source are both part of the online capacity.
LEMMA MoveExact ==
  ASSUME NEW l \in Ledgers, invariant(l), NEW from \in Buckets, NEW to \in Buckets,
         from # to, NEW n \in Nat, n <= l[from]
  PROVE  /\ CanMove(l, from, to, n)
         /\ Move(l, from, to, n)[from] = l[from] - n
         /\ Move(l, from, to, n)[to] = l[to] + n
<1>1. \A c \in Counters : l[c] \in Nat
  BY MaxWordAssumption DEF Ledgers, Words
<1>2. l[from] + l[to] <= MaxWord
  BY <1>1, MaxWordAssumption DEF invariant, Obligations, Counters, Buckets
<1>3. from \in Counters /\ to \in Counters
  BY DEF Counters
<1>4. CanMove(l, from, to, n)
  BY <1>1, <1>2, <1>3, MaxWordAssumption DEF CanMove
<1>5. Move(l, from, to, n) = [l EXCEPT ![from] = @ - n, ![to] = @ + n]
  BY <1>4 DEF Move
<1> QED BY <1>3, <1>4, <1>5 DEF Ledgers

-----------------------------------------------------------------------------
(***************************************************************************)
(* Fencing keeps the audit.                                                 *)
(***************************************************************************)
\* A fence that ends live reservations and revives none.
Ends(outcome) ==
  /\ outcome \in [AnyState -> AnyState]
  /\ \A state \in AnyState : outcome[state] \notin {"RESERVED"} \cup Promised

\* The three outcomes of the code are such fences.
LEMMA OutcomesEnd ==
  Ends(FenceOutcome) /\ Ends(EpochOutcome) /\ Ends([s \in AnyState |-> "CANCELLED"])
<1>1. Ends(FenceOutcome)
  BY OutcomeTypes DEF Ends, FenceOutcome, AnyState, ReservationStates, Promised
<1>2. Ends(EpochOutcome)
  <2>1. \A s \in AnyState : EpochOutcome[s] =
          IF s = "RESERVED" THEN "REVALIDATION_REQUIRED" ELSE FenceOutcome[s]
    BY OutcomeTypes DEF EpochOutcome
  <2> QED BY <1>1, <2>1, OutcomeTypes DEF Ends, Promised
<1>3. Ends([s \in AnyState |-> "CANCELLED"])
  BY OutcomeTypes DEF Ends, Promised
<1> QED BY <1>1, <1>2, <1>3

\* After such a fence of S, exactly the reservations outside S still hold bytes.
LEMMA MovedHolding ==
  ASSUME TypeOK, NEW S \in SUBSET ReservationIds, NEW outcome, Ends(outcome),
         NEW r, NEW states \in SUBSET ({"RESERVED"} \cup Promised)
  PROVE  /\ HoldingOf(Moved(S, outcome), r, states)
              = HoldingOf(reservations, r, states) \ S
         /\ \A T \in SUBSET ReservationIds :
              BytesOf(Moved(S, outcome), T) = BytesOf(reservations, T)
<1>1. \A i \in ReservationIds :
        reservations[i] \in Reservations /\ reservations[i].state \in AnyState
  BY DEF TypeOK, Reservations, AnyState
<1>2. \A i \in ReservationIds :
        /\ Moved(S, outcome)[i].region = reservations[i].region
        /\ Moved(S, outcome)[i].bytes = reservations[i].bytes
        /\ Moved(S, outcome)[i].state = IF i \in S THEN outcome[reservations[i].state]
                                                  ELSE reservations[i].state
  BY <1>1 DEF Moved, Reservations
<1>3. \A i \in S : outcome[reservations[i].state] \notin states
  BY <1>1 DEF Ends
<1>4. HoldingOf(Moved(S, outcome), r, states)
        = HoldingOf(reservations, r, states) \ S
  BY <1>2, <1>3 DEF HoldingOf
<1>5. \A T \in SUBSET ReservationIds :
        BytesOf(Moved(S, outcome), T) = BytesOf(reservations, T)
  BY <1>2, BytesSame
<1> QED BY <1>4, <1>5

\* What is not fenced of a set of reservations has the bytes that are left.
LEMMA BytesRest ==
  ASSUME NEW R, NEW H \in SUBSET ReservationIds, NEW S
  PROVE  /\ BytesOf(R, H \ S) \in Nat /\ BytesOf(R, S \cap H) \in Nat
         /\ BytesOf(R, H) = BytesOf(R, H \ S) + BytesOf(R, S \cap H)
<1>1. H = (H \ S) \cup (S \cap H) /\ (H \ S) \cap (S \cap H) = {}
  OBVIOUS
<1>2. H \ S \in SUBSET ReservationIds /\ S \cap H \in SUBSET ReservationIds
  OBVIOUS
<1>3. BytesOf(R, (H \ S) \cup (S \cap H)) = BytesOf(R, H \ S) + BytesOf(R, S \cap H)
  BY <1>1, <1>2, BytesAdd
<1>4. BytesOf(R, H) = BytesOf(R, (H \ S) \cup (S \cap H))
  BY <1>1
<1> QED BY <1>2, <1>3, <1>4, PairsFinite

\* A ledger that agrees with the reservations still does when a set of them is
\* fenced, from both sides: Impl::fence and the loop of setEpoch.
LEMMA FencedAudited ==
  ASSUME TypeOK, NEW S \in SUBSET ReservationIds, NEW outcome, Ends(outcome),
         NEW r, NEW l \in Ledgers, invariant(l), Audited(reservations, l, r)
  PROVE  Audited(Moved(S, outcome), FencedLedger(l, S, r), r)
<1> DEFINE res == HoldingOf(reservations, r, {"RESERVED"})
           com == HoldingOf(reservations, r, Promised)
           m == BytesOf(reservations, S \cap res)
           n == BytesOf(reservations, S \cap com)
           k == Move(l, "reserved", "unavailable", m)
           j == Move(k, "committed", "unavailable", n)
<1>1. FencedLedger(l, S, r) = j
  BY AuditedIs DEF FencedLedger, fenceReserved, fenceCommitted
<1>2. res \in SUBSET ReservationIds /\ com \in SUBSET ReservationIds
  BY DEF HoldingOf
<1>3. /\ m \in Nat /\ n \in Nat
      /\ BytesOf(reservations, res \ S) \in Nat
      /\ BytesOf(reservations, com \ S) \in Nat
      /\ BytesOf(reservations, res) = BytesOf(reservations, res \ S) + m
      /\ BytesOf(reservations, com) = BytesOf(reservations, com \ S) + n
  BY <1>2, BytesRest
<1>4. /\ l["reserved"] = BytesOf(reservations, res \ S) + m
      /\ l["committed"] = BytesOf(reservations, com \ S) + n
  BY <1>3 DEF Audited
<1> HIDE DEF m, n
<1>5. /\ k \in Ledgers /\ invariant(k)
      /\ k["reserved"] = BytesOf(reservations, res \ S)
      /\ k["committed"] = l["committed"]
  <2>1. m <= l["reserved"]
    BY <1>3, <1>4
  <2>2. k["reserved"] = l["reserved"] - m
    BY <1>3, <2>1, MoveExact DEF Buckets
  <2>3. k \in Ledgers /\ invariant(k) /\ k["committed"] = l["committed"]
    BY <1>3, MoveFrame, MoveClosed DEF Counters, Buckets
  <2> HIDE DEF k, res
  <2> QED BY <1>3, <1>4, <2>2, <2>3
<1> HIDE DEF k
<1>6. j["committed"] = BytesOf(reservations, com \ S) /\ j["reserved"] = k["reserved"]
  <2>1. n <= k["committed"]
    BY <1>3, <1>4, <1>5
  <2>2. j["committed"] = k["committed"] - n
    BY <1>3, <1>5, <2>1, MoveExact DEF Buckets
  <2>3. j["reserved"] = k["reserved"]
    <3>1. \A c \in Counters \ {"committed", "unavailable"} : j[c] = k[c]
      BY <1>3, <1>5, MoveFrame DEF Buckets
    <3> QED BY <3>1 DEF Counters, Buckets
  <2> HIDE DEF j, com
  <2> QED BY <1>3, <1>4, <1>5, <2>2, <2>3
<1> HIDE DEF j
<1>7. /\ HoldingOf(Moved(S, outcome), r, {"RESERVED"}) = res \ S
      /\ HoldingOf(Moved(S, outcome), r, Promised) = com \ S
      /\ BytesOf(Moved(S, outcome), res \ S) = BytesOf(reservations, res \ S)
      /\ BytesOf(Moved(S, outcome), com \ S) = BytesOf(reservations, com \ S)
  BY <1>2, MovedHolding
<1> QED BY <1>1, <1>5, <1>6, <1>7 DEF Audited

\* A fence of reservations on other regions leaves the agreement on r.
LEMMA ElsewhereAudited ==
  ASSUME TypeOK, NEW S \in SUBSET ReservationIds, NEW outcome, Ends(outcome),
         NEW r, NEW l, \A i \in S : reservations[i].region # r,
         Audited(reservations, l, r)
  PROVE  Audited(Moved(S, outcome), l, r)
<1>1. \A states : HoldingOf(reservations, r, states) \ S
                   = HoldingOf(reservations, r, states)
  BY DEF HoldingOf
<1>2. \A states : HoldingOf(reservations, r, states) \in SUBSET ReservationIds
  BY DEF HoldingOf
<1>3. \A states \in SUBSET ({"RESERVED"} \cup Promised) :
        HoldingOf(Moved(S, outcome), r, states) = HoldingOf(reservations, r, states)
  <2> TAKE states \in SUBSET ({"RESERVED"} \cup Promised)
  <2>1. HoldingOf(Moved(S, outcome), r, states)
          = HoldingOf(reservations, r, states) \ S
    BY MovedHolding
  <2> QED BY <1>1, <2>1
<1>4. \A T \in SUBSET ReservationIds :
        BytesOf(Moved(S, outcome), T) = BytesOf(reservations, T)
  BY MovedHolding
<1> QED BY <1>2, <1>3, <1>4 DEF Audited

-----------------------------------------------------------------------------
(***************************************************************************)
(* The audit, action by action.                                             *)
(***************************************************************************)
\* A call that fences a set of reservations.
LEMMA FenceAudit ==
  ASSUME IInv, AuditAccounting, NEW S \in SUBSET ReservationIds, Fence(S)
  PROVE  AuditAccounting'
<1> SUFFICES ASSUME NEW r \in Regions
             PROVE  Audited(reservations', ledger'[r], r)
  BY AuditedIs
<1>1. /\ ledger[r] \in Ledgers /\ invariant(ledger[r])
      /\ Audited(reservations, ledger[r], r)
  BY AuditedIs DEF IInv, TypeOK, LedgerClosed
<1>2. Audited(Moved(S, FenceOutcome), FencedLedger(ledger[r], S, r), r)
  BY <1>1, FencedAudited, OutcomesEnd DEF IInv
<1> QED BY <1>2 DEF Fence

\* setEpoch fences all of them.
LEMMA SetEpochAudit ==
  ASSUME IInv, AuditAccounting, NEW e, setEpoch(e)
  PROVE  AuditAccounting'
<1> SUFFICES ASSUME NEW r \in Regions
             PROVE  Audited(reservations', ledger'[r], r)
  BY AuditedIs
<1>1. /\ ledger[r] \in Ledgers /\ invariant(ledger[r])
      /\ Audited(reservations, ledger[r], r)
  BY AuditedIs DEF IInv, TypeOK, LedgerClosed
<1>2. Audited(Moved(ReservationIds, EpochOutcome),
              FencedLedger(ledger[r], ReservationIds, r), r)
  BY <1>1, FencedAudited, OutcomesEnd DEF IInv
<1> QED BY <1>2 DEF setEpoch

\* A call that touches no reservation and no promised byte.
LEMMA FrameAudit ==
  ASSUME AuditAccounting, reservations' = reservations,
         \A r \in Regions : /\ ledger'[r]["reserved"] = ledger[r]["reserved"]
                            /\ ledger'[r]["committed"] = ledger[r]["committed"]
  PROVE  AuditAccounting'
  BY AuditedIs DEF Audited

\* The publications: setOnline changes the free bytes only.
LEMMA RecordAudit ==
  ASSUME IInv, AuditAccounting, NEW a \in Authorities, NEW e \in Evidences,
         Publishable(e, a), Record(e)
  PROVE  AuditAccounting'
<1>1. CanSetOnline(ledger[e.region], e.onlineCapacityBytes)
  BY DEF Publishable
<1>2. e.region \in Regions /\ e.onlineCapacityBytes \in Words
  BY MessageAssumption
<1>3. ledger \in [Regions -> Ledgers] /\ ledger[e.region] \in Ledgers
  BY <1>2 DEF IInv, TypeOK
<1> DEFINE l == setOnline(ledger[e.region], e.onlineCapacityBytes)
<1>4. /\ l["reserved"] = ledger[e.region]["reserved"]
      /\ l["committed"] = ledger[e.region]["committed"]
  BY <1>1, <1>2, <1>3, SetOnlineClosed DEF Counters, Buckets
<1>5. ledger' = [ledger EXCEPT ![e.region] = l] /\ reservations' = reservations
  BY DEF Record
<1> HIDE DEF l
<1> QED BY <1>2, <1>3, <1>4, <1>5, FrameAudit

\* A region call that moves bytes between buckets nobody is promised.
LEMMA UnpromisedMoveAudit ==
  ASSUME IInv, AuditAccounting, NEW r \in Regions,
         NEW from \in {"free", "draining", "unavailable"},
         NEW to \in {"free", "draining", "unavailable"}, from # to,
         ledger' = [ledger EXCEPT ![r] = Move(@, from, to, @[from])],
         reservations' = reservations
  PROVE  AuditAccounting'
<1> DEFINE l == Move(ledger[r], from, to, ledger[r][from])
<1>1. ledger \in [Regions -> Ledgers] /\ ledger[r] \in Ledgers
  BY DEF IInv, TypeOK
<1>2. from \in Buckets /\ to \in Buckets /\ ledger[r][from] \in Nat
  BY BucketNat DEF IInv, Counters, Buckets
<1>3. \A c \in Counters \ {from, to} : l[c] = ledger[r][c]
  BY <1>1, <1>2, MoveFrame
<1>4. l["reserved"] = ledger[r]["reserved"] /\ l["committed"] = ledger[r]["committed"]
  BY <1>3 DEF Counters, Buckets
<1>5. ledger' = [ledger EXCEPT ![r] = l]
  OBVIOUS
<1> HIDE DEF l
<1> QED BY <1>1, <1>4, <1>5, FrameAudit

\* registerRegion: the new ledger promises nothing, and every reservation on the
\* region has ended.
LEMMA RegisterRegionAudit ==
  ASSUME IInv, AuditAccounting, NEW a \in Authorities, NEW d \in RegionDescriptors,
         registerRegion(d, a)
  PROVE  AuditAccounting'
<1> SUFFICES ASSUME NEW r \in Regions
             PROVE  Audited(reservations', ledger'[r], r)
  BY AuditedIs
<1> DEFINE S == OnRegion(d.id)
           new == NewLedger(d.totalCapacityBytes)
<1>1. /\ reservations' = Moved(S, FenceOutcome) /\ S \in SUBSET ReservationIds
      /\ ledger \in [Regions -> Ledgers] /\ ledger' = [ledger EXCEPT ![d.id] = new]
  BY DEF registerRegion, IInv, TypeOK, OnRegion
<1>2. Audited(reservations, ledger[r], r)
  BY AuditedIs
<1>3. CASE r # d.id
  <2>1. \A i \in S : reservations[i].region # r
    BY <1>3 DEF OnRegion
  <2>2. Audited(Moved(S, FenceOutcome), ledger[r], r)
    BY <1>1, <1>2, <2>1, ElsewhereAudited, OutcomesEnd DEF IInv
  <2> QED BY <1>1, <1>3, <2>2
<1>4. CASE r = d.id
  <2>1. new["reserved"] = 0 /\ new["committed"] = 0
    BY NewLedgerClosed, DescriptorAssumption
  <2>2. ledger'[r]["reserved"] = 0 /\ ledger'[r]["committed"] = 0
    BY <1>1, <1>4, <2>1
  <2>3. \A states : HoldingOf(reservations, r, states) \ S = {}
    BY <1>4 DEF HoldingOf, OnRegion
  <2>4. \A states \in SUBSET ({"RESERVED"} \cup Promised) :
          HoldingOf(reservations', r, states) = {}
    <3> TAKE states \in SUBSET ({"RESERVED"} \cup Promised)
    <3>1. HoldingOf(Moved(S, FenceOutcome), r, states)
            = HoldingOf(reservations, r, states) \ S
      BY <1>1, MovedHolding, OutcomesEnd DEF IInv
    <3> QED BY <1>1, <2>3, <3>1
  <2>5. BytesOf(reservations', {}) = 0
    BY BytesEmpty
  <2> QED BY <2>2, <2>4, <2>5 DEF Audited
<1> QED BY <1>3, <1>4

\* markUnavailable: the free bytes go first, then the region is fenced.
LEMMA MarkUnavailableAudit ==
  ASSUME IInv, AuditAccounting, NEW a \in Authorities, NEW r \in Regions,
         markUnavailable(r, a)
  PROVE  AuditAccounting'
<1> SUFFICES ASSUME NEW s \in Regions
             PROVE  Audited(reservations', ledger'[s], s)
  BY AuditedIs
<1> DEFINE k == Move(ledger[r], "free", "unavailable", ledger[r]["free"])
<1>1. /\ reservations' = Moved(OnRegion(r), FenceOutcome)
      /\ OnRegion(r) \in SUBSET ReservationIds
      /\ ledger \in [Regions -> Ledgers]
      /\ ledger' = [ledger EXCEPT ![r] = FencedLedger(k, OnRegion(r), r)]
  BY DEF markUnavailable, withdraw, IInv, TypeOK, OnRegion
<1>2. /\ Audited(reservations, ledger[s], s) /\ Audited(reservations, ledger[r], r)
      /\ invariant(ledger[r])
  BY AuditedIs DEF IInv, LedgerClosed
<1>3. CASE s # r
  <2>1. \A i \in OnRegion(r) : reservations[i].region # s
    BY <1>3 DEF OnRegion
  <2>2. Audited(Moved(OnRegion(r), FenceOutcome), ledger[s], s)
    BY <1>1, <1>2, <2>1, ElsewhereAudited, OutcomesEnd DEF IInv
  <2> QED BY <1>1, <1>3, <2>2
<1>4. CASE s = r
  <2>1. ledger[r] \in Ledgers /\ ledger[r]["free"] \in Nat
    BY BucketNat DEF IInv, Counters, Buckets
  <2>2. /\ k \in Ledgers /\ invariant(k)
        /\ \A c \in Counters \ {"free", "unavailable"} : k[c] = ledger[r][c]
    <3>1. "free" \in Buckets /\ "unavailable" \in Buckets /\ "free" # "unavailable"
      BY DEF Buckets
    <3>2. invariant(k)
      BY <1>2, <2>1, <3>1, MoveClosed
    <3> QED BY <2>1, <3>1, <3>2, MoveFrame
  <2> HIDE DEF k
  <2>3. Audited(reservations, k, r)
    BY <1>2, <2>2 DEF Audited, Counters, Buckets
  <2>4. Audited(Moved(OnRegion(r), FenceOutcome), FencedLedger(k, OnRegion(r), r), r)
    BY <1>1, <2>2, <2>3, FencedAudited, OutcomesEnd DEF IInv
  <2> QED BY <1>1, <1>4, <2>4
<1> QED BY <1>3, <1>4

\* beginDrain: the cancelled reservations give their bytes back, and all that is
\* free then drains.
LEMMA BeginDrainAudit ==
  ASSUME IInv, AuditAccounting, NEW a \in Authorities, NEW r \in Regions,
         beginDrain(r, a)
  PROVE  AuditAccounting'
<1> SUFFICES ASSUME NEW s \in Regions
             PROVE  Audited(reservations', ledger'[s], s)
  BY AuditedIs
<1> DEFINE S == HoldingOf(reservations, r, {"RESERVED"})
           C == HoldingOf(reservations, r, Promised)
           cancelled == [state \in AnyState |-> "CANCELLED"]
           k == Move(ledger[r], "reserved", "free", BytesOf(reservations, S))
           l == Move(k, "free", "draining", k["free"])
<1>1. /\ reservations' = Moved(S, cancelled)
      /\ S \in SUBSET ReservationIds /\ C \in SUBSET ReservationIds
      /\ ledger \in [Regions -> Ledgers]
      /\ ledger' = [ledger EXCEPT ![r] = l]
  BY AuditedIs DEF beginDrain, release, drain, IInv, TypeOK, HoldingOf
<1>2. /\ Audited(reservations, ledger[s], s) /\ Audited(reservations, ledger[r], r)
      /\ invariant(ledger[r]) /\ ledger[r] \in Ledgers
  BY AuditedIs DEF IInv, LedgerClosed, TypeOK
<1>3. CASE s # r
  <2>1. \A i \in S : reservations[i].region # s
    BY <1>3 DEF HoldingOf
  <2>2. Audited(Moved(S, cancelled), ledger[s], s)
    BY <1>1, <1>2, <2>1, ElsewhereAudited, OutcomesEnd DEF IInv
  <2> QED BY <1>1, <1>3, <2>2
<1>4. CASE s = r
  <2>1. /\ ledger[r]["reserved"] = BytesOf(reservations, S)
        /\ ledger[r]["committed"] = BytesOf(reservations, C)
        /\ BytesOf(reservations, S) \in Nat
    BY <1>1, <1>2, PairsFinite DEF Audited
  <2>2. /\ {"reserved", "free", "draining"} \subseteq Buckets
        /\ {"reserved", "free", "committed"} \subseteq Counters
    BY DEF Buckets, Counters
  <2>3. /\ k \in Ledgers
        /\ \A c \in Counters \ {"reserved", "free"} : k[c] = ledger[r][c]
    BY <1>2, <2>1, <2>2, MoveFrame
  <2>4. k["reserved"] = ledger[r]["reserved"] - BytesOf(reservations, S)
    BY <1>2, <2>1, <2>2, MoveExact
  <2>5. k["reserved"] = 0 /\ k["committed"] = BytesOf(reservations, C)
    BY <2>1, <2>2, <2>3, <2>4
  <2>6. k["free"] \in Nat
    BY <2>2, <2>3, MaxWordAssumption DEF Ledgers, Words
  <2> HIDE DEF k
  <2>7. \A c \in Counters \ {"free", "draining"} : l[c] = k[c]
    BY <2>2, <2>3, <2>6, MoveFrame
  <2>8. l["reserved"] = 0 /\ l["committed"] = BytesOf(reservations, C)
    BY <2>2, <2>5, <2>7
  <2>9. /\ HoldingOf(Moved(S, cancelled), r, {"RESERVED"}) = S \ S
        /\ HoldingOf(Moved(S, cancelled), r, Promised) = C \ S
        /\ BytesOf(Moved(S, cancelled), C) = BytesOf(reservations, C)
    <3>1. Ends(cancelled)
      BY OutcomesEnd
    <3>2. /\ {"RESERVED"} \in SUBSET ({"RESERVED"} \cup Promised)
          /\ Promised \in SUBSET ({"RESERVED"} \cup Promised)
      OBVIOUS
    <3> HIDE DEF cancelled
    <3> QED BY <1>1, <3>1, <3>2, MovedHolding DEF IInv
  <2>10. C \ S = C /\ S \ S = {}
    BY DEF HoldingOf, Promised
  <2>11. BytesOf(reservations', {}) = 0
    BY BytesEmpty
  <2> HIDE DEF l
  <2> QED BY <1>1, <1>4, <2>8, <2>9, <2>10, <2>11 DEF Audited
<1> QED BY <1>3, <1>4

\* What a set of reservations holds when one more joins it, or leaves it.
LEMMA BytesOneMore ==
  ASSUME NEW R, NEW H \in SUBSET ReservationIds, NEW i \in ReservationIds,
         R[i].bytes \in Words
  PROVE  /\ BytesOf(R, H) \in Nat /\ R[i].bytes \in Nat
         /\ i \notin H => BytesOf(R, H \cup {i}) = BytesOf(R, H) + R[i].bytes
         /\ i \in H => BytesOf(R, H \ {i}) = BytesOf(R, H) - R[i].bytes
<1>1. BytesOf(R, {i}) = R[i].bytes /\ R[i].bytes \in Nat
  BY BytesSingle, MaxWordAssumption DEF Words
<1>2. BytesOf(R, H) \in Nat
  BY PairsFinite
<1>3. i \notin H => BytesOf(R, H \cup {i}) = BytesOf(R, H) + R[i].bytes
  <2>1. i \notin H => H \cap {i} = {}
    OBVIOUS
  <2>2. {i} \in SUBSET ReservationIds
    OBVIOUS
  <2>3. i \notin H => BytesOf(R, H \cup {i}) = BytesOf(R, H) + BytesOf(R, {i})
    BY <2>1, <2>2, BytesAdd
  <2> QED BY <1>1, <2>3
<1>4. i \in H => BytesOf(R, H \ {i}) = BytesOf(R, H) - R[i].bytes
  <2>1. i \in H => {i} \cap H = {i}
    OBVIOUS
  <2>2. /\ BytesOf(R, H \ {i}) \in Nat
        /\ BytesOf(R, H) = BytesOf(R, H \ {i}) + BytesOf(R, {i} \cap H)
    BY BytesRest
  <2>3. i \in H => BytesOf(R, H) = BytesOf(R, H \ {i}) + R[i].bytes
    BY <1>1, <2>1, <2>2
  <2> QED BY <1>1, <1>2, <2>2, <2>3
<1> QED BY <1>1, <1>2, <1>3, <1>4

\* requestReservation: the new reservation and the reserved bytes come together.
LEMMA RequestReservationAudit ==
  ASSUME IInv, AuditAccounting, NEW a \in Authorities, NEW q \in Requests,
         requestReservation(q, a)
  PROVE  AuditAccounting'
<1> SUFFICES ASSUME NEW s \in Regions
             PROVE  Audited(reservations', ledger'[s], s)
  BY AuditedIs
<1>1. PICK r \in TopRegions(q), i \in ReservationIds :
        /\ CanMove(ledger[r], "free", "reserved", q.requiredBytes)
        /\ reservations[i].state = "ABSENT"
        /\ ledger' = [ledger EXCEPT ![r] = reserve(@, q.requiredBytes)]
        /\ reservations' = [reservations EXCEPT ![i] = NewReservation(q, r, a)]
  BY DEF requestReservation, NextReservationId
<1>2. /\ r \in Regions /\ ledger \in [Regions -> Ledgers]
      /\ reservations \in [ReservationIds -> Reservations]
      /\ q.requiredBytes \in Words
  BY MessageAssumption
  DEF TopRegions, EligibleRegions, Candidates, KnownRegions, IInv, TypeOK
<1> DEFINE res(t) == HoldingOf(reservations, t, {"RESERVED"})
           com(t) == HoldingOf(reservations, t, Promised)
<1>3. /\ Audited(reservations, ledger[s], s)
      /\ res(s) \in SUBSET ReservationIds /\ com(s) \in SUBSET ReservationIds
      /\ i \notin res(s) /\ i \notin com(s)
  BY <1>1, AuditedIs DEF HoldingOf, Promised
<1>4. /\ reservations'[i].state = "RESERVED" /\ reservations'[i].region = r
      /\ reservations'[i].bytes = q.requiredBytes
      /\ \A j \in ReservationIds \ {i} : reservations'[j] = reservations[j]
  BY <1>1, <1>2 DEF NewReservation
<1>5. /\ HoldingOf(reservations', s, {"RESERVED"}) =
           IF s = r THEN res(s) \cup {i} ELSE res(s)
      /\ HoldingOf(reservations', s, Promised) = com(s)
  BY <1>1, <1>4 DEF HoldingOf, Promised
<1>6. /\ BytesOf(reservations', res(s)) = BytesOf(reservations, res(s))
      /\ BytesOf(reservations', com(s)) = BytesOf(reservations, com(s))
  BY <1>3, <1>4, BytesSame
<1>7. /\ BytesOf(reservations', res(s)) \in Nat
      /\ BytesOf(reservations', res(s) \cup {i})
           = BytesOf(reservations', res(s)) + q.requiredBytes
  <2>1. reservations'[i].bytes \in Words
    BY <1>2, <1>4
  <2> HIDE DEF res
  <2>2. /\ BytesOf(reservations', res(s)) \in Nat
        /\ BytesOf(reservations', res(s) \cup {i})
             = BytesOf(reservations', res(s)) + reservations'[i].bytes
    BY <1>3, <2>1, BytesOneMore
  <2> QED BY <1>4, <2>2
<1> HIDE DEF res, com
<1>8. CASE s # r
  <2>1. ledger'[s] = ledger[s]
    BY <1>1, <1>2, <1>8
  <2> QED BY <1>3, <1>5, <1>6, <1>8, <2>1 DEF Audited, res, com
<1>9. CASE s = r
  <2>1. ledger'[s] = [ledger[r] EXCEPT !["free"] = @ - q.requiredBytes,
                                       !["reserved"] = @ + q.requiredBytes]
    BY <1>1, <1>2, <1>9 DEF reserve, Move
  <2>2. ledger[r] \in Ledgers
    BY <1>2
  <2>3. /\ ledger'[s]["reserved"] = ledger[s]["reserved"] + q.requiredBytes
        /\ ledger'[s]["committed"] = ledger[s]["committed"]
    BY <1>9, <2>1, <2>2 DEF Ledgers, Counters, Buckets
  <2>4. /\ ledger[s]["reserved"] = BytesOf(reservations, res(s))
        /\ ledger[s]["committed"] = BytesOf(reservations, com(s))
    BY <1>3 DEF Audited, res, com
  <2>5. ledger'[s]["reserved"] = BytesOf(reservations', res(s) \cup {i})
    BY <1>6, <1>7, <2>3, <2>4
  <2> QED BY <1>5, <1>6, <1>9, <2>3, <2>4, <2>5 DEF Audited
<1> QED BY <1>8, <1>9

\* What the reservations hold when the state of one of them is set.
LEMMA StateSet ==
  ASSUME TypeOK, NEW i \in ReservationIds, NEW to,
         reservations' = [reservations EXCEPT ![i].state = to]
  PROVE  /\ \A T \in SUBSET ReservationIds :
              BytesOf(reservations', T) = BytesOf(reservations, T)
         /\ \A r, states : HoldingOf(reservations', r, states) =
              IF reservations[i].region = r /\ to \in states
              THEN HoldingOf(reservations, r, states) \cup {i}
              ELSE HoldingOf(reservations, r, states) \ {i}
<1>1. /\ reservations \in [ReservationIds -> Reservations]
      /\ reservations[i] \in Reservations
  BY DEF TypeOK
<1>2. /\ reservations'[i].state = to
      /\ reservations'[i].region = reservations[i].region
      /\ reservations'[i].bytes = reservations[i].bytes
      /\ \A j \in ReservationIds \ {i} : reservations'[j] = reservations[j]
  BY <1>1 DEF Reservations
<1>3. \A T \in SUBSET ReservationIds :
        BytesOf(reservations', T) = BytesOf(reservations, T)
  <2>1. \A j \in ReservationIds : reservations'[j].bytes = reservations[j].bytes
    BY <1>2
  <2> QED BY <2>1, BytesSame
<1>4. \A r, states : HoldingOf(reservations', r, states) =
        IF reservations[i].region = r /\ to \in states
        THEN HoldingOf(reservations, r, states) \cup {i}
        ELSE HoldingOf(reservations, r, states) \ {i}
  BY <1>2 DEF HoldingOf
<1> QED BY <1>3, <1>4

\* A reservation on region r gives its bytes from one bucket to another: what
\* the ledger and the reservations say of r and of any other region.
LEMMA ReservationMoveAudit ==
  ASSUME IInv, AuditAccounting, NEW i \in ReservationIds,
         NEW from \in {"reserved", "committed"}, NEW to \in {"free", "committed"},
         from # to,
         NEW state \in {"COMMITTED", "RELEASED"},
         from = "reserved" <=> reservations[i].state = "RESERVED",
         reservations[i].state \in {"RESERVED"} \cup Promised,
         to = "committed" <=> state = "COMMITTED",
         CanMove(ledger[reservations[i].region], from, to, reservations[i].bytes),
         reservations' = [reservations EXCEPT ![i].state = state],
         ledger' = [ledger EXCEPT ![reservations[i].region] =
                      Move(@, from, to, reservations[i].bytes)]
  PROVE  AuditAccounting'
<1> SUFFICES ASSUME NEW s \in Regions
             PROVE  Audited(reservations', ledger'[s], s)
  BY AuditedIs
<1> DEFINE r == reservations[i].region
           n == reservations[i].bytes
           res == HoldingOf(reservations, s, {"RESERVED"})
           com == HoldingOf(reservations, s, Promised)
<1>1. /\ ledger \in [Regions -> Ledgers] /\ reservations[i] \in Reservations
      /\ Audited(reservations, ledger[s], s)
  BY AuditedIs DEF IInv, TypeOK
<1>2. n \in Words /\ n \in Nat
  BY <1>1, MaxWordAssumption DEF Reservations, Words
<1>3. res \in SUBSET ReservationIds /\ com \in SUBSET ReservationIds
  BY DEF HoldingOf
<1>4. /\ i \in res <=> s = r /\ from = "reserved"
      /\ i \in com <=> s = r /\ from = "committed"
  BY DEF HoldingOf, Promised
<1>5. /\ HoldingOf(reservations', s, {"RESERVED"}) = res \ {i}
      /\ HoldingOf(reservations', s, Promised) =
           IF r = s /\ to = "committed" THEN com \cup {i} ELSE com \ {i}
      /\ \A T \in SUBSET ReservationIds :
           BytesOf(reservations', T) = BytesOf(reservations, T)
  <2>1. /\ \A T \in SUBSET ReservationIds :
             BytesOf(reservations', T) = BytesOf(reservations, T)
        /\ \A t, states : HoldingOf(reservations', t, states) =
             IF reservations[i].region = t /\ state \in states
             THEN HoldingOf(reservations, t, states) \cup {i}
             ELSE HoldingOf(reservations, t, states) \ {i}
    BY StateSet DEF IInv
  <2>2. state \notin {"RESERVED"} /\ (state \in Promised <=> to = "committed")
    BY DEF Promised
  <2> QED BY <2>1, <2>2
<1>6. /\ BytesOf(reservations, res) \in Nat /\ BytesOf(reservations, com) \in Nat
      /\ i \in res => BytesOf(reservations, res \ {i}) = BytesOf(reservations, res) - n
      /\ i \in com => BytesOf(reservations, com \ {i}) = BytesOf(reservations, com) - n
      /\ i \notin com => BytesOf(reservations, com \cup {i}) = BytesOf(reservations, com) + n
  BY <1>2, <1>3, BytesOneMore
<1>7. /\ ledger[s]["reserved"] = BytesOf(reservations, res)
      /\ ledger[s]["committed"] = BytesOf(reservations, com)
  BY <1>1 DEF Audited
<1> SUFFICES /\ ledger'[s]["reserved"] = BytesOf(reservations, res \ {i})
             /\ ledger'[s]["committed"] =
                  IF r = s /\ to = "committed" THEN BytesOf(reservations, com \cup {i})
                                               ELSE BytesOf(reservations, com \ {i})
  <2>1. /\ res \ {i} \in SUBSET ReservationIds /\ com \ {i} \in SUBSET ReservationIds
        /\ com \cup {i} \in SUBSET ReservationIds
    BY <1>3
  <2> QED BY <1>5, <2>1 DEF Audited
<1> HIDE DEF res, com
<1>8. CASE s # r
  <2>1. ledger'[s] = ledger[s]
    BY <1>1, <1>8
  <2>2. res \ {i} = res /\ com \ {i} = com
    BY <1>4, <1>8
  <2> QED BY <1>7, <1>8, <2>1, <2>2
<1>9. CASE s = r
  <2>1. ledger'[s] = [ledger[s] EXCEPT ![from] = @ - n, ![to] = @ + n]
    BY <1>1, <1>9 DEF Move
  <2>2. ledger[s] \in Ledgers
    BY <1>1
  <2>3. CASE from = "reserved" /\ to = "committed"
    <3>1. /\ ledger'[s]["reserved"] = ledger[s]["reserved"] - n
          /\ ledger'[s]["committed"] = ledger[s]["committed"] + n
      BY <2>1, <2>2, <2>3 DEF Ledgers, Counters, Buckets
    <3> QED BY <1>4, <1>6, <1>7, <1>9, <2>3, <3>1
  <2>4. CASE from = "reserved" /\ to = "free"
    <3>1. /\ ledger'[s]["reserved"] = ledger[s]["reserved"] - n
          /\ ledger'[s]["committed"] = ledger[s]["committed"]
      BY <2>1, <2>2, <2>4 DEF Ledgers, Counters, Buckets
    <3>2. com \ {i} = com
      BY <1>4, <2>4
    <3> QED BY <1>4, <1>6, <1>7, <1>9, <2>4, <3>1, <3>2
  <2>5. CASE from = "committed" /\ to = "free"
    <3>1. /\ ledger'[s]["reserved"] = ledger[s]["reserved"]
          /\ ledger'[s]["committed"] = ledger[s]["committed"] - n
      BY <2>1, <2>2, <2>5 DEF Ledgers, Counters, Buckets
    <3>2. res \ {i} = res
      BY <1>4, <2>5
    <3> QED BY <1>4, <1>6, <1>7, <1>9, <2>5, <3>1, <3>2
  <2> QED BY <2>3, <2>4, <2>5
<1> QED BY <1>8, <1>9

\* commitReservation and releaseReservation.
LEMMA CommitReservationAudit ==
  ASSUME IInv, AuditAccounting, NEW a \in Authorities, NEW i \in ReservationIds,
         commitReservation(i, a)
  PROVE  AuditAccounting'
  BY ReservationMoveAudit DEF commitReservation, commit

\* releaseReservation.
LEMMA ReleaseReservationAudit ==
  ASSUME IInv, AuditAccounting, NEW a \in Authorities, NEW i \in ReservationIds,
         releaseReservation(i, a)
  PROVE  AuditAccounting'
<1>1. CASE reservations[i].state = "RESERVED"
  BY <1>1, ReservationMoveAudit DEF releaseReservation, release, Releasable, Promised
<1>2. CASE reservations[i].state # "RESERVED"
  BY <1>2, ReservationMoveAudit DEF releaseReservation, complete, Releasable, Promised
<1> QED BY <1>1, <1>2

-----------------------------------------------------------------------------
\* A fabric without reservations passes its audit.
LEMMA InitAudit == Init => AuditAccounting
<1> SUFFICES ASSUME Init, NEW r \in Regions
             PROVE  Audited(reservations, ledger[r], r)
  BY AuditedIs
<1>1. ledger[r]["reserved"] = 0 /\ ledger[r]["committed"] = 0
  BY NewLedgerClosed, MaxWordAssumption DEF Init, Words
<1>2. /\ HoldingOf(reservations, r, {"RESERVED"}) = {}
      /\ HoldingOf(reservations, r, Promised) = {}
  BY DEF Init, NoReservation, HoldingOf, Promised
<1>3. BytesOf(reservations, {}) = 0
  BY BytesEmpty
<1> QED BY <1>1, <1>2, <1>3 DEF Audited

\* Every call passes the audit on.
LEMMA NextAudit ==
  ASSUME IInv, AuditAccounting, [Next]_vars
  PROVE  AuditAccounting'
<1>1. CASE UNCHANGED vars
  BY <1>1, FrameAudit DEF vars
<1>2. CASE \E e \in Epochs : setEpoch(e)
  BY <1>2, SetEpochAudit
<1>3. ASSUME NEW a \in Authorities, Register(a) PROVE AuditAccounting'
  <2>1. ASSUME NEW c, NEW g, registerConsumer(c, g, a) PROVE AuditAccounting'
    BY <2>1, FrameAudit DEF registerConsumer
  <2>2. ASSUME NEW d, registerProvider(d, a) PROVE AuditAccounting'
    BY <2>2, FenceAudit DEF registerProvider
  <2>3. ASSUME NEW d, NEW g, registerDomain(d, g, a) PROVE AuditAccounting'
    BY <2>3, FrameAudit DEF registerDomain
  <2>4. ASSUME NEW d \in RegionDescriptors, registerRegion(d, a) PROVE AuditAccounting'
    BY <2>4, RegisterRegionAudit
  <2>5. ASSUME NEW d, registerPool(d, a) PROVE AuditAccounting'
    BY <2>5, FenceAudit DEF registerPool
  <2>6. ASSUME NEW d, registerPolicy(d, a) PROVE AuditAccounting'
    BY <2>6, FenceAudit DEF registerPolicy
  <2>7. ASSUME NEW p, NEW m, addPoolMember(p, m, a) PROVE AuditAccounting'
    BY <2>7, FrameAudit DEF addPoolMember
  <2>8. ASSUME NEW p, NEW r, removePoolMember(p, r, a) PROVE AuditAccounting'
    BY <2>8, FrameAudit DEF removePoolMember
  <2> QED
    BY <1>3, <2>1, <2>2, <2>3, <2>4, <2>5, <2>6, <2>7, <2>8 DEF Register
<1>4. ASSUME NEW a \in Authorities, Publish(a) PROVE AuditAccounting'
  <2>1. ASSUME NEW e \in Evidences, publishRegionEvidence(e, a) PROVE AuditAccounting'
    BY <2>1, RecordAudit DEF publishRegionEvidence
  <2>2. ASSUME NEW e \in Evidences, publishRefusedLate(e, a) PROVE AuditAccounting'
    BY <2>2, RecordAudit DEF publishRefusedLate
  <2>3. ASSUME NEW t, publishAttachment(t, a) PROVE AuditAccounting'
    BY <2>3, FrameAudit DEF publishAttachment
  <2> QED BY <1>4, <2>1, <2>2, <2>3 DEF Publish
<1>5. ASSUME NEW a \in Authorities, Transition(a) PROVE AuditAccounting'
  <2>1. ASSUME NEW r \in Regions, completeDrain(r, a) PROVE AuditAccounting'
    BY <2>1, UnpromisedMoveAudit DEF completeDrain, endDrain
  <2>2. ASSUME NEW r \in Regions, cancelDrain(r, a) PROVE AuditAccounting'
    BY <2>2, UnpromisedMoveAudit DEF cancelDrain, undrain
  <2>3. ASSUME NEW r \in Regions, recoverRegion(r, a) PROVE AuditAccounting'
    BY <2>3, UnpromisedMoveAudit DEF recoverRegion, restore
  <2>4. ASSUME NEW r \in Regions, retireRegion(r, a) PROVE AuditAccounting'
    BY <2>4, FenceAudit DEF retireRegion, OnRegion
  <2>5. ASSUME NEW p, retireProvider(p, a) PROVE AuditAccounting'
    BY <2>5, FenceAudit DEF retireProvider
  <2> QED
    BY <1>5, <2>1, <2>2, <2>3, <2>4, <2>5, BeginDrainAudit, MarkUnavailableAudit
    DEF Transition
<1>6. ASSUME NEW a \in Authorities, Work(a) PROVE AuditAccounting'
  <2>1. ASSUME NEW w, NEW b, NEW e, registerWorker(w, b, e, a) PROVE AuditAccounting'
    BY <2>1, FrameAudit DEF registerWorker
  <2>2. ASSUME NEW w, markWorkerDead(w, a) PROVE AuditAccounting'
    BY <2>2, FenceAudit DEF markWorkerDead
  <2> QED BY <1>6, <2>1, <2>2 DEF Work
<1>7. ASSUME NEW a \in Authorities, Reserve(a) PROVE AuditAccounting'
  BY <1>7, RequestReservationAudit, CommitReservationAudit, ReleaseReservationAudit
  DEF Reserve
<1> QED BY <1>1, <1>2, <1>3, <1>4, <1>5, <1>6, <1>7 DEF Next

\* In every reachable state the reserved and committed bytes of every region are
\* those of the reservations on it in these states: audit() never reports a
\* ledger that disagrees with the reservations.
THEOREM AuditHolds == Spec => []AuditAccounting
<1>1. IInv /\ AuditAccounting /\ [Next]_vars => AuditAccounting'
  BY NextAudit
<1> QED BY <1>1, InitAudit, Inductive, PTL DEF Spec
=============================================================================
