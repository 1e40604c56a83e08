-------------------------- MODULE PersistenceProofs --------------------------
(***************************************************************************)
(* What survives a crash. The invariants of the fabric hold across crashes  *)
(* and restarts, because load builds a fabric in which nothing is reserved  *)
(* or observed, from an image of the shape serializePayload writes. A file  *)
(* that load takes is one state of the fabric; it is never torn while saves *)
(* do not overlap, nor where an open file is not renamed and no write fails.*)
(***************************************************************************)
EXTENDS Persistence, BindingProofs

-----------------------------------------------------------------------------
(***************************************************************************)
(* Types.                                                                   *)
(***************************************************************************)
Images ==
  [epoch     : Epochs,
   providers : [Providers -> ProviderDescriptors \cup {NoDescriptor}],
   domains   : [Domains -> Nat],
   regions   : [Regions -> RegionDescriptors \cup {NoDescriptor}],
   pools     : [Pools -> PoolRecords],
   policies  : [Policies -> PolicyRecords],
   consumers : [Consumers -> Nat]]

Files == {Absent, Torn} \cup {Complete(i) : i \in Images}

\* A process that is down has no memory and no thread.
Down ==
  ~up => /\ Unlocked
         /\ reservations = [i \in ReservationIds |-> NoReservation]
         /\ evidence = [r \in Regions |-> NoEvidence]

\* Where a thread may be in atomicWrite.
SaverStates ==
  [at : {"idle", "writing", "cut", "flushed", "failed", "written", "removing"},
   on : {"none", "tmp", "file"}]

StorageTypes ==
  /\ around \in Surroundings
  /\ up \in BOOLEAN /\ file \in Files /\ tmp \in Files
  /\ saver \in [Savers -> SaverStates]
  /\ Down

\* What save writes is an image.
LEMMA PayloadType ==
  ASSUME TypeOK
  PROVE  serializePayload \in Images
<1>1. [p \in Providers |-> providers[p].descriptor]
        \in [Providers -> ProviderDescriptors \cup {NoDescriptor}]
  BY DEF TypeOK, ProviderRecords
<1>2. [r \in Regions |-> regions[r].descriptor]
        \in [Regions -> RegionDescriptors \cup {NoDescriptor}]
  BY DEF TypeOK, RegionRecords
<1> QED BY <1>1, <1>2 DEF serializePayload, Images, TypeOK

\* What load builds from an image is a fresh fabric.
LEMMA LoadFresh ==
  ASSUME TypeOK, StorageTypes, load
  PROVE  Fresh'
<1> DEFINE i == file.image
<1>1. i \in Images
  <2>1. PICK j \in Images : file = Complete(j)
    BY DEF StorageTypes, load, Loadable, Files, Absent, Torn
  <2> QED BY <2>1 DEF Complete
<1> HIDE DEF i
<1>2. deserializePayload(i) /\ epoch' \in Epochs
  BY DEF load, i
<1>3. \A r \in Regions : i.regions[r] \in RegionDescriptors \cup {NoDescriptor}
  BY <1>1 DEF Images
<1>4. providers' \in [Providers -> ProviderRecords]
  BY <1>1, <1>2 DEF deserializePayload, Images, ProviderRecords, NoProvider,
                    ProviderStates
<1>5. regions' \in [Regions -> RegionRecords]
  BY <1>3, <1>2 DEF deserializePayload, RegionRecords, NoRegion, RegionStates
<1>6. \A r \in Regions :
        /\ ledger'[r] \in Ledgers
        /\ ledger'[r] = NewLedger(IF regions'[r].descriptor.generation # 0
                                  THEN regions'[r].descriptor.totalCapacityBytes
                                  ELSE 0)
  <2> SUFFICES ASSUME NEW r \in Regions
               PROVE  /\ ledger'[r] \in Ledgers
                      /\ ledger'[r] =
                           NewLedger(IF regions'[r].descriptor.generation # 0
                                     THEN regions'[r].descriptor.totalCapacityBytes
                                     ELSE 0)
    OBVIOUS
  <2> DEFINE n == IF i.regions[r].generation = 0 THEN 0
                  ELSE i.regions[r].totalCapacityBytes
  <2>1. ledger'[r] = NewLedger(n)
    BY <1>2 DEF deserializePayload
  <2>2. n \in Words
    BY <1>3, DescriptorAssumption, MaxWordAssumption DEF NoDescriptor, Words
  <2>3. n = IF regions'[r].descriptor.generation # 0
            THEN regions'[r].descriptor.totalCapacityBytes ELSE 0
    BY <1>2 DEF deserializePayload, NoRegion, NoDescriptor
  <2> HIDE DEF n
  <2> QED BY <2>1, <2>2, <2>3, NewLedgerClosed
<1>7. ledger' \in [Regions -> Ledgers]
  BY <1>2, <1>6 DEF deserializePayload
<1>8. evidence' = [r \in Regions |-> NoEvidence] /\ NoEvidence \in EvidenceRecords
  BY <1>2 DEF deserializePayload, NoEvidence, EvidenceRecords
<1>9. poolMemberships' \in [Regions -> SUBSET Pools]
  BY <1>2 DEF deserializePayload, RebuiltMemberships
<1>10. /\ domains' \in [Domains -> Nat] /\ pools' \in [Pools -> PoolRecords]
       /\ policies' \in [Policies -> PolicyRecords]
       /\ consumers' \in [Consumers -> Nat]
  BY <1>1, <1>2 DEF deserializePayload, Images
<1>11. /\ UNCHANGED <<attachments, reservations, workers>>
       /\ reservations = [j \in ReservationIds |-> NoReservation]
  BY DEF load, StorageTypes, Down
<1>12. TypeOK'
  BY <1>2, <1>4, <1>5, <1>7, <1>8, <1>9, <1>10, <1>11 DEF TypeOK
<1> QED BY <1>6, <1>8, <1>11, <1>12 DEF Fresh, KnownRegions, RegionGeneration

\* A crash leaves the memory of a new fabric.
LEMMA CrashInit ==
  ASSUME TypeOK, Crash
  PROVE  Init'
  BY DEF TypeOK, Crash, Init

\* The threads inside save do not touch the fabric.
SaverStep(s) ==
  OpenTmp(s) \/ WriteTmp(s) \/ WriteFails(s) \/ CloseTmp(s)
    \/ Rename(s) \/ RenameFails(s) \/ RemoveTmp(s)

SaverSteps == \E s \in Savers : SaverStep(s)

\* What a step does to the memory: nothing, a call, a crash or a load.
LEMMA MemorySteps ==
  ASSUME [PersistentNext]_allVars
  PROVE  \/ UNCHANGED allVars
         \/ SaverSteps /\ UNCHANGED vars
         \/ up /\ Unlocked /\ Next /\ UNCHANGED storage
         \/ Crash
         \/ load
<1>1. ASSUME NEW s \in Savers, SaverStep(s)
      PROVE  UNCHANGED vars
  BY <1>1 DEF SaverStep, OpenTmp, WriteTmp, WriteFails, CloseTmp, Rename, RenameFails,
              RemoveTmp
<1> QED BY <1>1 DEF PersistentNext, Serve, SaverSteps, SaverStep

\* Only the opening of the temporary starts from outside save.
LEMMA InsideSave ==
  ASSUME NEW s \in Savers, SaverStep(s), ~OpenTmp(s)
  PROVE  saver[s] # Idle
<1>1. saver[s].at # "idle"
  <2>1. CASE WriteTmp(s) \/ WriteFails(s)
    BY <2>1 DEF WriteTmp, WriteFails
  <2>2. CASE CloseTmp(s)
    BY <2>2 DEF CloseTmp
  <2>3. CASE Rename(s) \/ RenameFails(s)
    BY <2>3 DEF Rename, RenameFails
  <2>4. CASE RemoveTmp(s)
    BY <2>4 DEF RemoveTmp
  <2> QED BY <2>1, <2>2, <2>3, <2>4 DEF SaverStep
<1> QED BY <1>1 DEF Idle

\* A thread is inside save only while the process runs.
LEMMA SaverRuns ==
  ASSUME StorageTypes, SaverSteps
  PROVE  up /\ up' = up
<1>1. PICK s \in Savers : SaverStep(s)
  BY DEF SaverSteps
<1>2. up \/ saver[s] # Idle
  BY <1>1, InsideSave DEF OpenTmp
<1>3. up
  BY <1>2 DEF StorageTypes, Down, Unlocked
<1> QED BY <1>1, <1>3 DEF SaverStep, OpenTmp, WriteTmp, WriteFails, CloseTmp, Rename,
                          RenameFails, RemoveTmp

\* What storing the bytes of the image leaves under the two names.
LEMMA StoresImage ==
  ASSUME NEW s \in Savers, NEW forSure \in BOOLEAN, Stores(s, forSure)
  PROVE  /\ tmp' \in {tmp, Complete(serializePayload)}
         /\ file' \in {file, Complete(serializePayload)}
         /\ saver[s].on # "file" => file' = file
         /\ saver[s].on = "tmp" /\ forSure => tmp' = Complete(serializePayload)
  BY DEF Stores

\* The surroundings stay.
LEMMA AroundStays ==
  ASSUME [PersistentNext]_allVars
  PROVE  around' = around
<1>1. ASSUME NEW s \in Savers, SaverStep(s) PROVE around' = around
  BY <1>1 DEF SaverStep, OpenTmp, WriteTmp, WriteFails, CloseTmp, Rename, RenameFails,
              RemoveTmp
<1> QED BY <1>1, MemorySteps DEF SaverSteps, allVars, storage, Crash, load

\* The steps of save keep the types.
LEMMA SaverTypes ==
  ASSUME TypeOK, StorageTypes, SaverSteps
  PROVE  StorageTypes'
<1>1. up' = TRUE
  BY SaverRuns DEF StorageTypes
<1>2. Absent \in Files /\ Torn \in Files /\ Complete(serializePayload) \in Files
  BY PayloadType DEF Files
<1>3. /\ Idle \in SaverStates
      /\ \A to \in {"writing", "cut"} : [at |-> to, on |-> "tmp"] \in SaverStates
      /\ \A to \in {"written", "removing"} : [at |-> to, on |-> "none"] \in SaverStates
      /\ \A x \in SaverStates, to \in {"none", "file"} :
           [x EXCEPT !.on = to] \in SaverStates
      /\ \A x \in SaverStates, to \in {"flushed", "failed", "removing"} :
           [x EXCEPT !.at = to] \in SaverStates
  BY DEF Idle, SaverStates
<1>4. file \in Files /\ tmp \in Files /\ saver \in [Savers -> SaverStates]
  BY DEF StorageTypes
<1>5. PICK s \in Savers : SaverStep(s)
  BY DEF SaverSteps
<1>6. \A to \in {"none", "file"} : TakenAway(s, to) \in [Savers -> SaverStates]
  <2> SUFFICES ASSUME NEW to \in {"none", "file"}, NEW t \in Savers
               PROVE  TakenAway(s, to)[t] \in SaverStates
    BY DEF TakenAway
  <2> QED BY <1>3, <1>4 DEF TakenAway
<1>7. ASSUME NEW to \in {"flushed", "failed", "removing"}, Goes(s, to)
      PROVE  saver' \in [Savers -> SaverStates]
  BY <1>3, <1>4, <1>7 DEF Goes
<1>8. ASSUME NEW forSure \in BOOLEAN, Stores(s, forSure)
      PROVE  file' \in Files /\ tmp' \in Files
  BY <1>2, <1>4, <1>8, StoresImage
<1>9. file' \in Files /\ tmp' \in Files /\ saver' \in [Savers -> SaverStates]
  <2>1. CASE OpenTmp(s)
    BY <1>2, <1>3, <1>4, <2>1 DEF OpenTmp
  <2>2. CASE WriteTmp(s) \/ WriteFails(s)
    BY <1>7, <1>8, <2>2 DEF WriteTmp, WriteFails
  <2>3. CASE CloseTmp(s)
    <3>1. file' \in Files /\ tmp' \in Files
      BY <1>4, <1>8, <2>3 DEF CloseTmp
    <3> QED BY <1>3, <1>4, <2>3, <3>1 DEF CloseTmp
  <2>4. CASE Rename(s)
    BY <1>2, <1>4, <1>6, <2>4 DEF Rename
  <2>5. CASE RenameFails(s)
    BY <1>4, <1>7, <2>5 DEF RenameFails
  <2>6. CASE RemoveTmp(s)
    BY <1>2, <1>3, <1>4, <1>6, <2>6 DEF RemoveTmp
  <2> QED BY <1>5, <2>1, <2>2, <2>3, <2>4, <2>5, <2>6 DEF SaverStep
<1>10. around' = around
  BY AroundStays DEF PersistentNext, SaverSteps, SaverStep
<1> QED BY <1>1, <1>9, <1>10 DEF StorageTypes, Down

-----------------------------------------------------------------------------
(***************************************************************************)
(* The fabric across restarts.                                              *)
(***************************************************************************)
PersistentInv == FabricInv /\ StorageTypes

\* A process that starts without a file has it.
LEMMA PersistentInitInv == PersistentInit => PersistentInv
<1> SUFFICES ASSUME PersistentInit PROVE PersistentInv
  OBVIOUS
<1>1. FabricInv
  BY InitFresh, FreshIsSound DEF PersistentInit
<1>2. StorageTypes
  BY DEF PersistentInit, StorageTypes, SaverStates, Down, Files, Idle
<1> QED BY <1>1, <1>2 DEF PersistentInv

\* Calls, saves, crashes and loads keep it.
LEMMA PersistentNextInv ==
  PersistentInv /\ [PersistentNext]_allVars => PersistentInv'
<1>1. Init' => FabricInv'
  BY InitFresh, FreshIsSound, PTL
<1>2. Fresh' => FabricInv'
  BY FreshIsSound, PTL
<1> SUFFICES ASSUME PersistentInv, [PersistentNext]_allVars PROVE PersistentInv'
  OBVIOUS
<1>3. FabricInv /\ StorageTypes /\ TypeOK
  BY DEF PersistentInv, FabricInv, BoundInv, IInv
<1>4. CASE UNCHANGED allVars
  <2>1. FabricInv'
    BY <1>3, <1>4, NextFabric DEF allVars
  <2>2. StorageTypes'
    BY <1>3, <1>4 DEF StorageTypes, Down, Unlocked, allVars, storage, vars
  <2> QED BY <2>1, <2>2 DEF PersistentInv
<1>5. CASE SaverSteps /\ UNCHANGED vars
  BY <1>3, <1>5, NextFabric, SaverTypes DEF PersistentInv
<1>6. CASE up /\ Unlocked /\ Next /\ UNCHANGED storage
  <2>1. StorageTypes'
    BY <1>3, <1>6 DEF StorageTypes, Down, storage
  <2> QED BY <1>3, <1>6, <2>1, NextFabric DEF PersistentInv
<1>7. CASE Crash
  <2>1. Init'
    BY <1>3, <1>7, CrashInit
  <2>2. StorageTypes'
    BY <1>3, <1>7 DEF Crash, StorageTypes, SaverStates, Down, Unlocked, Idle
  <2> QED BY <1>1, <2>1, <2>2 DEF PersistentInv
<1>8. CASE load
  <2>1. Fresh'
    BY <1>3, <1>8, LoadFresh
  <2>2. StorageTypes'
    BY <1>3, <1>8 DEF load, StorageTypes, Down
  <2> QED BY <1>2, <2>1, <2>2 DEF PersistentInv
<1> QED BY <1>4, <1>5, <1>6, <1>7, <1>8, MemorySteps

\* Wherever the process stops and whatever file it is started from, the ledgers
\* agree with the reservations, and what holds bytes or counts as CURRENT is
\* bound to this start: load takes up no reservation, no evidence, no worker.
THEOREM SoundAcrossRestarts ==
  PersistentSpec => [](/\ LedgerClosed /\ AuditAccounting
                       /\ LiveReservationCurrent /\ CurrentEvidenceIsFresh)
<1>1. PersistentInv => /\ LedgerClosed /\ AuditAccounting
                       /\ LiveReservationCurrent /\ CurrentEvidenceIsFresh
  BY DEF PersistentInv, FabricInv, BoundInv, IInv, EvidenceInv
<1> QED BY <1>1, PersistentInitInv, PersistentNextInv, PTL DEF PersistentSpec

-----------------------------------------------------------------------------
(***************************************************************************)
(* What a save puts in place. While a thread is inside save, stateMtx keeps *)
(* the state it has serialised: a whole temporary is of that state.         *)
(***************************************************************************)
TmpIsCurrent ==
  ~Unlocked => tmp \in {Absent, Torn, Complete(serializePayload)}

\* The three kinds of contents differ.
LEMMA FilesDiffer ==
  ASSUME NEW i
  PROVE  /\ Absent # Torn /\ Complete(i) # Torn /\ Absent # Complete(i)
         /\ Absent.kind # "torn" /\ Torn.kind = "torn" /\ Complete(i).kind # "torn"
  BY DEF Absent, Torn, Complete

\* The contents a step of save puts under the two names.
LEMMA SaverContents ==
  ASSUME TmpIsCurrent, NEW s \in Savers, SaverStep(s)
  PROVE  /\ tmp' \in {Absent, Torn, Complete(serializePayload)}
         /\ file' \in {file, Torn, Complete(serializePayload)}
<1> DEFINE image == Complete(serializePayload)
<1>1. CASE OpenTmp(s)
  BY <1>1 DEF OpenTmp
<1>2. CASE ~OpenTmp(s)
  <2>1. saver[s] # Idle
    BY <1>2, InsideSave
  <2>2. tmp \in {Absent, Torn, image}
    BY <2>1 DEF TmpIsCurrent, Unlocked
  <2>3. ASSUME NEW forSure \in BOOLEAN, Stores(s, forSure)
        PROVE  tmp' \in {Absent, Torn, image} /\ file' \in {file, image}
    BY <2>2, <2>3, StoresImage
  <2>4. CASE WriteTmp(s) \/ WriteFails(s) \/ CloseTmp(s)
    BY <2>2, <2>3, <2>4 DEF WriteTmp, WriteFails, CloseTmp
  <2>5. CASE Rename(s)
    BY <2>2, <2>5 DEF Rename, TmpIsFree
  <2>6. CASE RenameFails(s) \/ RemoveTmp(s)
    BY <2>2, <2>6 DEF RenameFails, RemoveTmp
  <2> QED BY <1>2, <2>4, <2>5, <2>6 DEF SaverStep, image
<1> QED BY <1>1, <1>2

\* Every step keeps it.
LEMMA TmpIsCurrentNext ==
  ASSUME PersistentInv, TmpIsCurrent, [PersistentNext]_allVars
  PROVE  TmpIsCurrent'
<1>1. StorageTypes
  BY DEF PersistentInv
<1>2. CASE UNCHANGED allVars
  BY <1>2 DEF TmpIsCurrent, Unlocked, serializePayload, allVars, storage, vars
<1>3. CASE SaverSteps /\ UNCHANGED vars
  <2>1. Complete(serializePayload)' = Complete(serializePayload)
    BY <1>3 DEF Complete, serializePayload, vars
  <2>2. tmp' \in {Absent, Torn, Complete(serializePayload)}
    BY <1>3, SaverContents DEF SaverSteps
  <2> QED BY <2>1, <2>2 DEF TmpIsCurrent
<1>4. CASE Unlocked /\ UNCHANGED saver
  BY <1>4 DEF TmpIsCurrent, Unlocked
<1>5. CASE Crash
  BY <1>5 DEF Crash, TmpIsCurrent, Unlocked
<1>6. load => Unlocked /\ UNCHANGED saver
  BY <1>1 DEF load, StorageTypes, Down
<1> QED BY <1>2, <1>3, <1>4, <1>5, <1>6, MemorySteps DEF storage

\* Whatever saves overlap, whatever fails and wherever the process stops, a file
\* that a save puts in place and load would take is the state the fabric has at
\* that moment: stateMtx, held shared by all the savers, keeps that state from
\* their serialisation on, and a temporary left behind is truncated first.
THEOREM SavedIsCurrent == PersistentSpec => SaveIsSnapshot
<1> DEFINE A == file' # file => file' \in {Torn, Complete(serializePayload)}
<1>1. PersistentInit => TmpIsCurrent
  BY DEF PersistentInit, TmpIsCurrent
<1>2. PersistentInv /\ TmpIsCurrent /\ [PersistentNext]_allVars => TmpIsCurrent'
  BY TmpIsCurrentNext
<1>3. TmpIsCurrent /\ [PersistentNext]_allVars => [A]_allVars
  <2> SUFFICES ASSUME TmpIsCurrent, [PersistentNext]_allVars PROVE A
    OBVIOUS
  <2>1. SaverSteps => A
    BY SaverContents DEF SaverSteps
  <2> QED BY <2>1, MemorySteps DEF allVars, storage, Crash, load
<1> QED BY <1>1, <1>2, <1>3, PersistentInitInv, PersistentNextInv, PTL
        DEF PersistentSpec, SaveIsSnapshot

-----------------------------------------------------------------------------
(***************************************************************************)
(* When the file is whole. One save at a time may fail anywhere; saves that *)
(* overlap may not fail to write, nor be renamed while another has the      *)
(* temporary open. Then a torn temporary has the thread that truncated it   *)
(* last still writing, or nobody goes on to rename it.                      *)
(***************************************************************************)
Inside(s) == saver[s] # Idle

Apart == around.overlap \/ \A s, t \in Savers : Inside(s) /\ Inside(t) => s = t

StreamsOnTmp ==
  \A s \in Savers :
    saver[s].on = IF saver[s].at \in {"writing", "cut", "flushed", "failed"}
                  THEN "tmp" ELSE "none"

TornHasWriter ==
  tmp = Torn => \/ \E t \in Savers : saver[t].at = "writing"
                \/ \A s \in Savers : saver[s].at \notin {"cut", "flushed", "written"}

SaveInv == file # Torn /\ Apart /\ StreamsOnTmp /\ TornHasWriter

\* The temporary that a thread takes away is not open elsewhere.
LEMMA TakenIsClosed ==
  ASSUME Orderly, Apart, NEW s \in Savers, Inside(s), TmpIsFree(s)
  PROVE  OpenOnTmp(s) = {}
<1>1. \A t \in OpenOnTmp(s) : t \in Savers /\ t # s /\ Inside(t)
  BY DEF OpenOnTmp, Inside, Idle
<1> QED BY <1>1 DEF Orderly, Apart, TmpIsFree

\* So the others stay as they are.
LEMMA OthersStay ==
  ASSUME Orderly, StorageTypes, Apart, StreamsOnTmp,
         NEW s \in Savers, Inside(s), TmpIsFree(s),
         NEW to \in {"none", "file"}
  PROVE  TakenAway(s, to) = [t \in Savers |-> IF t = s THEN Idle ELSE saver[t]]
<1>1. \A t \in Savers \ {s} : saver[t].on = "none"
  BY TakenIsClosed DEF OpenOnTmp, StreamsOnTmp
<1>2. ASSUME NEW t \in Savers, t # s, to = "none"
      PROVE  [saver[t] EXCEPT !.on = "none"] = saver[t]
  BY <1>1, <1>2 DEF StorageTypes, SaverStates
<1> QED BY <1>1, <1>2 DEF TakenAway

\* What is renamed is whole.
LEMMA RenamedIsWhole ==
  ASSUME Orderly, SaveInv, NEW s \in Savers, Rename(s)
  PROVE  tmp # Torn
<1>1. OpenOnTmp(s) = {} /\ saver[s].at = "written"
  BY TakenIsClosed DEF Rename, SaveInv, Inside, Idle
<1>2. \A t \in Savers : saver[t].at # "writing"
  BY <1>1 DEF OpenOnTmp, SaveInv, StreamsOnTmp
<1> QED BY <1>1, <1>2 DEF SaveInv, TornHasWriter

\* Saves that do not overlap stay apart: a step of save lets nobody else in.
LEMMA ApartKept ==
  ASSUME StorageTypes, Apart, SaverSteps
  PROVE  Apart'
<1>1. PICK s \in Savers : SaverStep(s)
  BY DEF SaverSteps
<1>2. around' = around
  BY AroundStays DEF PersistentNext, SaverSteps, SaverStep
<1>3. SUFFICES ASSUME ~around.overlap
               PROVE  \A t \in Savers : Inside(t)' => t = s
  BY <1>2 DEF Apart
<1>4. CASE OpenTmp(s)
  BY <1>3, <1>4 DEF OpenTmp, Unlocked, Inside, Idle
<1>5. CASE ~OpenTmp(s)
  <2>1. \A t \in Savers \ {s} : saver[t] = Idle
    BY <1>1, <1>3, <1>5, InsideSave DEF Apart, Inside
  <2>2. ASSUME NEW t \in Savers, t # s PROVE saver'[t] = Idle
    <3>1. saver[t] = Idle /\ saver \in [Savers -> SaverStates]
      BY <2>1, <2>2 DEF StorageTypes
    <3>2. CASE WriteTmp(s) \/ WriteFails(s) \/ RenameFails(s)
      BY <2>2, <3>1, <3>2 DEF WriteTmp, WriteFails, RenameFails, Goes
    <3>3. CASE CloseTmp(s)
      BY <2>2, <3>1, <3>3 DEF CloseTmp
    <3>4. \A to \in {"none", "file"} : TakenAway(s, to)[t] = Idle
      BY <2>2, <3>1 DEF TakenAway, Idle
    <3>5. CASE Rename(s) \/ RemoveTmp(s)
      BY <2>2, <3>1, <3>4, <3>5 DEF Rename, RemoveTmp
    <3> QED BY <1>1, <1>5, <3>2, <3>3, <3>5 DEF SaverStep
  <2> QED BY <2>2 DEF Inside
<1> QED BY <1>4, <1>5

\* The steps of save keep the invariant of the file.
LEMMA SaverKeeps ==
  ASSUME Orderly, StorageTypes, SaveInv, SaverSteps
  PROVE  SaveInv'
<1>0. Apart'
  BY ApartKept DEF SaveInv
<1>1. saver \in [Savers -> SaverStates]
  BY DEF StorageTypes
<1>2. Absent # Torn /\ Complete(serializePayload) # Torn
  BY FilesDiffer
<1>3. PICK s \in Savers : SaverStep(s)
  BY DEF SaverSteps
<1>4. Apart /\ StreamsOnTmp /\ TornHasWriter /\ file # Torn
  BY DEF SaveInv
<1>5. ASSUME NEW to \in {"flushed", "failed", "removing"}, Goes(s, to)
      PROVE  /\ saver'[s].at = to /\ saver'[s].on = saver[s].on
             /\ \A t \in Savers \ {s} : saver'[t] = saver[t]
  BY <1>1, <1>5 DEF Goes, SaverStates
<1>6. CASE OpenTmp(s)
  <2>1. saver'[s] = [at |-> "writing", on |-> "tmp"]
    BY <1>6 DEF OpenTmp
  <2>2. \A t \in Savers \ {s} :
          \/ saver'[t] = saver[t]
          \/ saver'[t] = [at |-> "cut", on |-> "tmp"]
    BY <1>6 DEF OpenTmp
  <2>3. StreamsOnTmp'
    BY <1>4, <2>1, <2>2 DEF StreamsOnTmp
  <2>4. TornHasWriter' /\ file' = file
    BY <1>6, <2>1 DEF OpenTmp, TornHasWriter
  <2> QED BY <1>0, <1>4, <2>3, <2>4 DEF SaveInv
<1>7. CASE WriteTmp(s)
  <2>1. /\ saver[s].at \in {"writing", "cut"} /\ saver[s].on = "tmp"
        /\ Stores(s, saver[s].at = "writing") /\ Goes(s, "flushed")
    BY <1>4, <1>7 DEF WriteTmp, StreamsOnTmp
  <2>2. /\ file' = file /\ tmp' \in {tmp, Complete(serializePayload)}
        /\ saver[s].at = "writing" => tmp' = Complete(serializePayload)
    BY <2>1, StoresImage
  <2>3. /\ saver'[s].at = "flushed" /\ saver'[s].on = "tmp"
        /\ \A t \in Savers \ {s} : saver'[t] = saver[t]
    BY <1>5, <2>1
  <2>4. StreamsOnTmp'
    BY <1>4, <2>3 DEF StreamsOnTmp
  <2>5. ASSUME tmp' = Torn PROVE \E t \in Savers : saver'[t].at = "writing"
    <3>1. saver[s].at = "cut" /\ tmp = Torn
      BY <1>2, <2>1, <2>2, <2>5
    <3>2. PICK t \in Savers : saver[t].at = "writing"
      BY <1>4, <3>1 DEF TornHasWriter
    <3> QED BY <2>3, <3>1, <3>2
  <2> QED BY <1>0, <1>4, <2>2, <2>4, <2>5 DEF SaveInv, TornHasWriter
<1>8. CASE WriteFails(s)
  <2>1. /\ saver[s].at \in {"writing", "cut"} /\ saver[s].on = "tmp"
        /\ Stores(s, FALSE) /\ Goes(s, "failed") /\ ~around.overlap
    BY <1>4, <1>8 DEF WriteFails, Orderly, StreamsOnTmp
  <2>2. file' = file
    BY <2>1, StoresImage
  <2>3. saver'[s].at = "failed" /\ saver'[s].on = "tmp"
    BY <1>5, <2>1
  <2>4. \A t \in Savers \ {s} : saver[t] = Idle
    BY <1>4, <2>1 DEF Apart, Inside, Idle
  <2>5. \A t \in Savers \ {s} : saver'[t].at = "idle" /\ saver'[t].on = "none"
    BY <1>5, <2>1, <2>4 DEF Idle
  <2> QED BY <1>0, <1>4, <2>2, <2>3, <2>5 DEF SaveInv, StreamsOnTmp, TornHasWriter
<1>9. CASE CloseTmp(s)
  <2>1. /\ \/ /\ saver[s].at = "flushed" /\ tmp' = tmp
              /\ saver'[s] = [at |-> "written", on |-> "none"]
           \/ /\ saver[s].at = "failed"
              /\ saver'[s] = [at |-> "removing", on |-> "none"]
              /\ tmp' \in {tmp, Complete(serializePayload)}
        /\ \A t \in Savers \ {s} : saver'[t] = saver[t]
        /\ file' = file
    <3>1. saver[s].at \in {"flushed", "failed"} => saver[s].on # "file"
      BY <1>4 DEF StreamsOnTmp
    <3>2. CASE saver[s].at = "flushed"
      BY <1>1, <1>9, <3>2 DEF CloseTmp
    <3>3. CASE saver[s].at = "failed"
      BY <1>1, <1>9, <3>1, <3>3, StoresImage DEF CloseTmp
    <3> QED BY <1>9, <3>2, <3>3 DEF CloseTmp
  <2>2. StreamsOnTmp'
    BY <1>4, <2>1 DEF StreamsOnTmp
  <2>3. TornHasWriter'
    <3> SUFFICES ASSUME tmp' = Torn
                 PROVE  \/ \E t \in Savers : saver'[t].at = "writing"
                        \/ \A t \in Savers :
                             saver'[t].at \notin {"cut", "flushed", "written"}
      BY DEF TornHasWriter
    <3>1. tmp = Torn
      BY <1>2, <2>1
    <3>2. CASE \E t \in Savers : saver[t].at = "writing"
      <4>1. PICK t \in Savers : saver[t].at = "writing"
        BY <3>2
      <4> QED BY <2>1, <4>1
    <3>3. CASE \A t \in Savers : saver[t].at \notin {"cut", "flushed", "written"}
      BY <2>1, <3>3
    <3> QED BY <1>4, <3>1, <3>2, <3>3 DEF TornHasWriter
  <2> QED BY <1>0, <1>4, <2>1, <2>2, <2>3 DEF SaveInv
<1>10. CASE RenameFails(s)
  <2>1. /\ saver[s].at = "written" /\ tmp' = tmp /\ file' = file
        /\ saver'[s].at = "removing" /\ saver'[s].on = saver[s].on
        /\ \A t \in Savers \ {s} : saver'[t] = saver[t]
    BY <1>5, <1>10 DEF RenameFails
  <2>2. StreamsOnTmp'
    BY <1>4, <2>1 DEF StreamsOnTmp
  <2>3. TornHasWriter'
    BY <1>4, <2>1 DEF TornHasWriter
  <2> QED BY <1>0, <1>4, <2>1, <2>2, <2>3 DEF SaveInv
<1>11. CASE Rename(s) \/ RemoveTmp(s)
  <2>1. /\ saver' = [t \in Savers |-> IF t = s THEN Idle ELSE saver[t]]
        /\ saver[s].at \in {"written", "removing"}
        /\ tmp' \in {Absent, tmp}
        /\ Rename(s) => tmp' = Absent
    <3>1. CASE Rename(s)
      BY <1>4, <3>1, OthersStay DEF Rename, Inside, Idle
    <3>2. CASE RemoveTmp(s)
      <4>1. [saver EXCEPT ![s] = Idle] = [t \in Savers |-> IF t = s THEN Idle ELSE saver[t]]
        BY <1>1
      <4> QED BY <1>4, <3>2, <4>1, OthersStay DEF RemoveTmp, Rename, Inside, Idle
    <3> QED BY <1>11, <3>1, <3>2
  <2>2. StreamsOnTmp'
    BY <1>4, <2>1 DEF StreamsOnTmp, Idle
  <2>3. file' # Torn
    BY <1>4, <1>11, RenamedIsWhole DEF Rename, RemoveTmp
  <2>4. TornHasWriter'
    <3>1. \A t \in Savers : saver[t].at = "writing" => saver'[t].at = "writing"
      BY <2>1
    <3>2. \A t \in Savers : saver'[t].at = "idle" \/ saver'[t].at = saver[t].at
      BY <2>1 DEF Idle
    <3> QED BY <1>2, <1>4, <2>1, <3>1, <3>2 DEF TornHasWriter
  <2> QED BY <1>0, <2>2, <2>3, <2>4 DEF SaveInv
<1> QED BY <1>3, <1>6, <1>7, <1>8, <1>9, <1>10, <1>11 DEF SaverStep

\* Every step keeps it.
LEMMA SaveInvNext ==
  ASSUME Orderly, PersistentInv, SaveInv, [PersistentNext]_allVars
  PROVE  SaveInv'
<1>1. StorageTypes
  BY DEF PersistentInv
<1>2. CASE UNCHANGED <<around, file, tmp, saver>>
  BY <1>2 DEF SaveInv, Apart, Inside, StreamsOnTmp, TornHasWriter
<1>3. CASE SaverSteps
  BY <1>1, <1>3, SaverKeeps
<1>4. CASE Crash
  BY <1>4 DEF Crash, SaveInv, Apart, Inside, StreamsOnTmp, TornHasWriter, Idle
<1> QED BY <1>2, <1>3, <1>4, MemorySteps DEF allVars, storage, load

\* One save at a time, whatever fails, and saves that overlap where the system
\* refuses to rename an open file and no write fails, never leave half an image
\* under the path, wherever the process stops. In other surroundings atomicWrite
\* is not atomic, because every save uses the one temporary: v_save_torn.
THEOREM FileIsWhole == PersistentSpec => []FileNeverTorn
<1> DEFINE Whole == Orderly => SaveInv
<1>1. PersistentInit => Whole
  BY FilesDiffer DEF PersistentInit, SaveInv, Apart, Inside, StreamsOnTmp,
                     TornHasWriter, Idle
<1>2. PersistentInv /\ Whole /\ [PersistentNext]_allVars => Whole'
  BY SaveInvNext, AroundStays DEF Orderly
<1>3. PersistentInv /\ Whole => FileNeverTorn
  <2> SUFFICES ASSUME StorageTypes, SaveInv PROVE file.kind # "torn"
    BY DEF PersistentInv, FileNeverTorn
  <2> QED BY FilesDiffer DEF StorageTypes, Files, SaveInv
<1> HIDE DEF Whole
<1> QED BY <1>1, <1>2, <1>3, PersistentInitInv, PersistentNextInv, PTL
        DEF PersistentSpec

-----------------------------------------------------------------------------
(***************************************************************************)
(* Service needs evidence.                                                  *)
(***************************************************************************)
Serving == {"ONLINE", "DEGRADED", "DRAINING"}

\* Region r serves after a step only on evidence: it served before and keeps
\* what evidence it had, or evidence has just been recorded.
ServesStill(r) ==
  regions'[r].lifecycle \in Serving =>
    \/ evidence'[r].has
    \/ regions[r].lifecycle \in Serving /\ evidence'[r].has = evidence[r].has

\* The fields of the records, for the updates below.
LEMMA FieldUpdates ==
  ASSUME TypeOK, NEW r \in Regions
  PROVE  /\ \A to : [regions[r] EXCEPT !.lifecycle = to].lifecycle = to
         /\ \A to : [evidence[r] EXCEPT !.status = to].has = evidence[r].has
         /\ Revalidated(regions[r]).lifecycle \in Serving =>
              regions[r].lifecycle \in Serving
<1>1. regions[r] \in RegionRecords /\ evidence[r] \in EvidenceRecords
  BY DEF TypeOK
<1>2. \A to : [regions[r] EXCEPT !.lifecycle = to].lifecycle = to
  BY <1>1 DEF RegionRecords
<1>3. \A to : [evidence[r] EXCEPT !.status = to].has = evidence[r].has
  BY <1>1 DEF EvidenceRecords
<1> QED BY <1>2, <1>3 DEF Revalidated, Settled, Serving

\* The calls on one region: a drain starts only from service and a cancelled
\* one goes back to it; the other lifecycles they set are out of service.
LEMMA RegionCallServes ==
  ASSUME TypeOK, NEW r \in Regions, NEW s \in Regions, NEW a,
         \/ beginDrain(s, a)
         \/ completeDrain(s, a)
         \/ cancelDrain(s, a)
         \/ markUnavailable(s, a)
         \/ retireRegion(s, a)
         \/ recoverRegion(s, a)
  PROVE  ServesStill(r)
<1>1. \E to \in RegionStates :
        /\ SetLifecycle(s, to)
        /\ to \in Serving => regions[s].lifecycle \in Serving
        /\ \/ evidence' = evidence
           \/ evidence' = [evidence EXCEPT ![s].status = "REVALIDATION_REQUIRED"]
  <2>1. regions[s].lifecycle \in RegionStates
    BY DEF TypeOK, RegionRecords
  <2>2. regionLifecycleAllowed(regions[s].lifecycle, "DRAINING")
          => regions[s].lifecycle \in Serving
    BY <2>1 DEF regionLifecycleAllowed, RegionSuccessors, RegionStates, Serving
  <2>3. CASE beginDrain(s, a)
    BY <2>2, <2>3 DEF beginDrain, RegionStates
  <2>4. CASE cancelDrain(s, a)
    BY <2>4 DEF cancelDrain, RegionStates, Serving
  <2>5. CASE completeDrain(s, a) \/ markUnavailable(s, a)
    BY <2>5 DEF completeDrain, markUnavailable, RegionStates, Serving
  <2>6. CASE retireRegion(s, a) \/ recoverRegion(s, a)
    BY <2>6 DEF retireRegion, recoverRegion, RegionStates, Serving
  <2> QED BY <2>3, <2>4, <2>5, <2>6
<1>2. PICK to \in RegionStates :
        /\ SetLifecycle(s, to)
        /\ to \in Serving => regions[s].lifecycle \in Serving
        /\ \/ evidence' = evidence
           \/ evidence' = [evidence EXCEPT ![s].status = "REVALIDATION_REQUIRED"]
  BY <1>1
<1>3. evidence'[r].has = evidence[r].has
  <2>1. \/ evidence'[r] = evidence[r]
        \/ evidence'[r] = [evidence[r] EXCEPT !.status = "REVALIDATION_REQUIRED"]
    BY <1>2 DEF TypeOK
  <2>2. evidence[r] \in EvidenceRecords
    BY DEF TypeOK
  <2> QED BY <2>1, <2>2 DEF EvidenceRecords
<1>4. regions'[r].lifecycle = IF r = s THEN to ELSE regions[r].lifecycle
  BY <1>2, FieldUpdates DEF SetLifecycle, TypeOK
<1> QED BY <1>2, <1>3, <1>4 DEF ServesStill

\* The publications record the evidence before the region changes.
LEMMA RecordServes ==
  ASSUME TypeOK, NEW r \in Regions, NEW e \in Evidences, NEW a,
         publishRegionEvidence(e, a) \/ publishRefusedLate(e, a)
  PROVE  ServesStill(r)
<1>1. evidence' = [evidence EXCEPT ![e.region] =
                     [latest |-> e, has |-> TRUE, status |-> "CURRENT"]]
  BY DEF publishRegionEvidence, publishRefusedLate, Record
<1>2. CASE r = e.region
  BY <1>1, <1>2 DEF ServesStill, TypeOK
<1>3. CASE r # e.region
  BY <1>1, <1>3 DEF ServesStill, TypeOK, publishRegionEvidence, publishRefusedLate
<1> QED BY <1>2, <1>3

\* No call puts a region into service without evidence.
LEMMA NextServes ==
  ASSUME TypeOK, [Next]_vars, NEW r \in Regions
  PROVE  ServesStill(r)
<1>1. UNCHANGED <<regions, evidence>> => ServesStill(r)
  BY DEF ServesStill
<1>2. CASE UNCHANGED vars
  BY <1>1, <1>2 DEF vars
<1>3. ASSUME NEW e \in Epochs, setEpoch(e) PROVE ServesStill(r)
  BY <1>3, FieldUpdates DEF setEpoch, ServesStill
<1>4. ASSUME NEW a \in Authorities, Register(a) PROVE ServesStill(r)
  <2>1. ASSUME NEW d \in ProviderDescriptors, registerProvider(d, a)
        PROVE  ServesStill(r)
    <3>1. CASE r \in RegionsOf(d.id)
      <4>1. \/ regions'[r].lifecycle = "RETIRED"
            \/ regions'[r] = [regions[r] EXCEPT !.lifecycle = "REVALIDATION_REQUIRED"]
        BY <2>1, <3>1 DEF registerProvider
      <4>2. regions[r] \in RegionRecords
        BY DEF TypeOK
      <4> QED BY <4>1, <4>2 DEF ServesStill, Serving, RegionRecords
    <3>2. CASE r \notin RegionsOf(d.id)
      BY <2>1, <3>2 DEF registerProvider, ServesStill
    <3> QED BY <3>1, <3>2
  <2>2. ASSUME NEW d \in RegionDescriptors, registerRegion(d, a)
        PROVE  ServesStill(r)
    BY <2>2 DEF registerRegion, ServesStill, Serving, TypeOK
  <2>3. ASSUME NEW c, NEW g, registerConsumer(c, g, a) PROVE ServesStill(r)
    BY <1>1, <2>3 DEF registerConsumer
  <2>4. ASSUME NEW d, NEW g, registerDomain(d, g, a) PROVE ServesStill(r)
    BY <1>1, <2>4 DEF registerDomain
  <2>5. ASSUME NEW d, registerPool(d, a) \/ registerPolicy(d, a) PROVE ServesStill(r)
    BY <1>1, <2>5 DEF registerPool, registerPolicy
  <2>6. ASSUME NEW p, NEW m, addPoolMember(p, m, a) \/ removePoolMember(p, m, a)
        PROVE  ServesStill(r)
    BY <1>1, <2>6 DEF addPoolMember, removePoolMember
  <2> QED BY <1>4, <2>1, <2>2, <2>3, <2>4, <2>5, <2>6 DEF Register
<1>5. ASSUME NEW a \in Authorities, Publish(a) PROVE ServesStill(r)
  <2>1. ASSUME NEW t, publishAttachment(t, a) PROVE ServesStill(r)
    BY <1>1, <2>1 DEF publishAttachment
  <2> QED BY <1>5, <2>1, RecordServes DEF Publish
<1>6. ASSUME NEW a \in Authorities, Transition(a) PROVE ServesStill(r)
  <2>1. ASSUME NEW p \in Providers, retireProvider(p, a) PROVE ServesStill(r)
    BY <2>1, FieldUpdates DEF retireProvider, ServesStill, Serving
  <2> QED BY <1>6, <2>1, RegionCallServes DEF Transition
<1>7. ASSUME NEW a \in Authorities, Work(a) PROVE ServesStill(r)
  <2>1. ASSUME NEW w, NEW b, NEW e, registerWorker(w, b, e, a) PROVE ServesStill(r)
    BY <1>1, <2>1 DEF registerWorker
  <2>2. ASSUME NEW w, markWorkerDead(w, a) PROVE ServesStill(r)
    BY <2>2, FieldUpdates DEF markWorkerDead, ServesStill
  <2> QED BY <1>7, <2>1, <2>2 DEF Work
<1>8. ASSUME NEW a \in Authorities, Reserve(a) PROVE ServesStill(r)
  BY <1>1, <1>8 DEF Reserve, requestReservation, commitReservation,
                    releaseReservation, OnReservation
<1> QED BY <1>2, <1>3, <1>4, <1>5, <1>6, <1>7, <1>8 DEF Next

\* Across crashes and restarts a region serves, or drains, only on evidence
\* received since the last start: load leaves REVALIDATION_REQUIRED, and only
\* publishRegionEvidence leads out of it into service.
THEOREM ServiceNeedsEvidence == PersistentSpec => []ServesOnlyOnEvidence
<1>1. PersistentInit => ServesOnlyOnEvidence
  BY DEF PersistentInit, Init, NoRegion, ServesOnlyOnEvidence
<1>2. PersistentInv /\ ServesOnlyOnEvidence /\ [PersistentNext]_allVars
        => ServesOnlyOnEvidence'
  <2> SUFFICES ASSUME PersistentInv, ServesOnlyOnEvidence, [PersistentNext]_allVars,
                      NEW r \in Regions, regions'[r].lifecycle \in Serving
               PROVE  evidence'[r].has
    BY DEF ServesOnlyOnEvidence, Serving
  <2>1. TypeOK
    BY DEF PersistentInv, FabricInv, BoundInv, IInv
  <2>2. CASE [Next]_vars
    BY <2>1, <2>2, NextServes DEF ServesStill, ServesOnlyOnEvidence, Serving
  <2>3. CASE Crash
    BY <2>3 DEF Crash, NoRegion, Serving
  <2>4. CASE load
    BY <2>4 DEF load, deserializePayload, NoRegion, Serving
  <2> QED BY <2>2, <2>3, <2>4, MemorySteps DEF allVars
<1> QED BY <1>1, <1>2, PersistentInitInv, PersistentNextInv, PTL DEF PersistentSpec
=============================================================================
